---- MODULE Spec2Model ----
(***************************************************************************)
(* A model of nucypher's cryptographic service plane:                      *)
(*   - the client-side retrieval planner (nucypher/network/retrieval.py):  *)
(*     RetrievalPlan and RetrievalClient.retrieve_cfrags;                  *)
(*   - the operator's /reencrypt and /revoke handlers                      *)
(*     (nucypher/network/server.py);                                       *)
(*   - ConditionLingo, its serialization and ReturnValueTest               *)
(*     (nucypher/policy/conditions/lingo.py);                              *)
(*   - the bolt-on conditions of kits and requests (nucypher/core.py);     *)
(*   - the work tracker (nucypher/blockchain/eth/token.py) and             *)
(*     RestartableTask (nucypher/utilities/task.py);                       *)
(*   - the DKG ritual engine and threshold decryption, whose code is not   *)
(*     part of the sources at hand: they are modelled from the written     *)
(*     specification, and from the example and tests that call them.       *)
(* Each part has its own specification (SpecPlan, SpecReenc, SpecLingo,    *)
(* SpecTest, SpecSerial, SpecCore, SpecWork, SpecTask, SpecRitual); the    *)
(* variables of the other parts stay at their initial value.               *)
(***************************************************************************)
EXTENDS Integers, Sequences, FiniteSets, TLC

(* ------------------------------ bounds --------------------------------- *)
\* Operator (Ursula) addresses are 1..NumUrsulas.
NumUrsulas == 3
\* At most MaxKits retrieval kits are handed to one retrieve_cfrags call.
MaxKits == 2
\* HRACs (policies) are 1..NumPolicies.
NumPolicies == 2
\* A reencryption request carries 1..MaxCapsules capsules ...
MaxCapsules == 2
\* ... and, when it has a conditions payload, 0..MaxLingos condition entries.
MaxLingos == 2
\* A condition list has at most MaxElements elements (conditions and operators).
MaxElements == 5
\* The core part of a serialized object has 1..MaxCoreBytes bytes.
MaxCoreBytes == 2
\* The chain is watched from block 1 to block MaxBlock.
MaxBlock == 3
\* _fire_commitment is called at most MaxTxs times.
MaxTxs == 2
\* The work tracker crashes at most MaxFails times.
MaxFails == 2
\* The operator has at most MaxMempool transactions in the mempool.
MaxMempool == 2
\* A pending transaction has outlived max_confirmation_time() once it has
\* waited MaxConfirmationBlocks blocks.
MaxConfirmationBlocks == 2
\* The node's datastore holds at most MaxStored records when the request arrives.
MaxStored == 1

\* The operators known to the coordinator are 1..NumOperators.
NumOperators == 2
\* At most MaxInbox events wait at one engine, beside the one being handled.
MaxInbox == 1
\* At most MaxInFlight handlers of one engine run at once, when nothing
\* serializes them.
MaxInFlight == 2

\* The integers, addresses and byte strings of a call result are numbered
\* 0..MaxValue, and a tuple has 1..MaxItems components.
MaxValue == 2
MaxItems == 2

\* The looped function of a task is called at most MaxCalls times.
MaxCalls == 4

\* A lingo whose serialization is followed has 1..MaxLingoLen elements.
MaxLingoLen == 3

(* ------------------------- program constants --------------------------- *)
\* WorkTracker.INTERVAL_FLOOR and INTERVAL_CEIL (token.py:816-817), in seconds.
INTERVAL_FLOOR == 1
INTERVAL_CEIL == 2
\* http.HTTPStatus, as the /reencrypt handler uses it.
OK == 200
BAD_REQUEST == 400
UNAUTHORIZED == 401
FORBIDDEN == 403
INTERNAL_SERVER_ERROR == 500

VARIABLES
    \* --- inputs of retrieve_cfrags ---
    destinations,        \* treasure_map.destinations (the addresses)
    threshold,           \* treasure_map.threshold
    kits,                \* retrieval_kits: sequence of [capsule, queried_addresses]
    known_nodes,         \* self._learner.known_nodes
    \* --- RetrievalPlan ---
    capsules,            \* self._capsules, in kit order
    results,             \* self._results: capsule -> (address -> cfrag)
    errors,              \* self._errors: capsule -> (address -> message)
    queried_addresses,   \* self._queried_addresses: capsule -> set of addresses
    processed_capsules,  \* self._processed_capsules: address -> set of capsules
    ursulas_pick_order,  \* self._ursulas_pick_order
    \* --- retrieve_cfrags ---
    pc,                  \* "loop" | "done" | "raised"
    \* --- history (ghost) variables ---
    work_orders,         \* every work order get_work_order returned, in order
    requests,            \* the reencryption requests sent, in order, with their outcome
    \* --- the operator node (server.py) ---
    revoked_policies,    \* this_node.revoked_policies
    datastore,           \* the ReencryptionRequestModel records written so far
    datastore_up,        \* whether datastore.describe(..., writeable=True) succeeds
    served,              \* whether the /reencrypt request of this run was handled
    request,             \* the /reencrypt request handled last
    response,            \* what the handler did with it and answered
    revocations,         \* the HRACs of the revocation orders POST /revoke answered 200
    \* --- ConditionLingo (lingo.py) ---
    conditions,          \* the list handed to the constructor or to from_list
    lingo_pc,            \* "given" | "accepted" | "rejected" | "evaluated"
    verified,            \* the indices whose condition.verify was called, in order
    eval_result,         \* what ConditionLingo.eval returned or raised
    \* --- ReturnValueTest (lingo.py) ---
    return_value_json,   \* the returnValueTest entry of a condition's JSON
    return_value_test,   \* the ReturnValueTest loaded from it
    call_result,         \* the result of the contract call handed to eval
    condition_result,    \* what ReturnValueTest.eval returned
    test_pc,             \* "given" | "loaded" | "rejected" | "evaluated" | "raised"
    \* --- ConditionLingo serialization (lingo.py) ---
    condition_lingo,     \* a ConditionLingo: its list of conditions and operators
    serial,              \* what to_list, to_json or to_base64 made of it
    restored,            \* what from_list, from_json or from_base64 read back
    serial_pc,           \* "given" | "serialized" | "restored"
    \* --- bolt-on conditions (core.py) ---
    kit,                 \* a MessageKit, RetrievalKit or ReencryptionRequest
    wire,                \* bytes(kit)
    decoded,             \* from_bytes(wire): an object, or the error raised
    rewire,              \* bytes(decoded)
    core_pc,             \* "object" | "serialized" | "decoded" | "reserialized"
    \* --- WorkTracker (token.py) and the chain it watches ---
    pending,             \* self.__pending: firing block number -> txhash
    requirement,         \* self.__requirement: "None" or "callable"
    consecutive_fails,   \* self._consecutive_fails
    abort_on_error,      \* self._abort_on_error
    task_running,        \* self._tracking_task.running
    task_interval,       \* self._tracking_task.interval
    task_now,            \* the `now` of the last _tracking_task.start
    crashed,             \* _crash_gracefully re-raised the failure
    block_number,        \* self.client.block_number
    mined,               \* the txhashes that have a receipt
    \* --- history (ghost) variables of the work tracker ---
    requirement_func,    \* the requirement_func given to start() by the operator
    fired,               \* the txhashes _fire_commitment returned, in order
    tick,                \* the last run of _do_work: its inputs, what it did, and
                         \* how many runs in a row have raised, this one included
    \* --- RestartableTask (task.py) ---
    running,             \* self.__task.running
    last_now,            \* the `now` of the last self.__task.start
    loop_calls,          \* how often the looped function was called
    task_log,            \* the failures of which handle_errors logged a warning
    handled,             \* the failures handle_errors was called with, in order
    reraised,            \* handle_errors raised the failure
    \* --- the coordinator's view of one ritual ---
    ritual_nodes,        \* ritual.nodes
    ritual_status,       \* coordinator status of the ritual
    transcripts,         \* operator -> whether its transcript slot is filled
    aggregations,        \* operator -> whether its aggregation slot is filled
    \* --- the ritual engine of every operator ---
    engine,              \* operator -> the handlers in flight and their attempts
    \* --- threshold decryption ---
    decryption,          \* the last threshold_decrypt call and what it gave
    \* --- history (ghost) variables of the ritual ---
    posted,              \* operator -> how many posts of each round were mined
    ritual_event         \* the last event delivered to an engine

planVars == <<destinations, threshold, kits, known_nodes, capsules, results, errors,
              queried_addresses, processed_capsules, ursulas_pick_order, pc,
              work_orders, requests>>

nodeVars == <<revoked_policies, datastore, datastore_up, served, request, response,
              revocations>>

testVars == <<return_value_json, return_value_test, call_result, condition_result, test_pc>>

serialVars == <<condition_lingo, serial, restored, serial_pc>>

lingoVars == <<conditions, lingo_pc, verified, eval_result, testVars, serialVars>>

coreVars == <<kit, wire, decoded, rewire, core_pc>>

taskVars == <<running, last_now, loop_calls, task_log, handled, reraised>>

workVars == <<pending, requirement, consecutive_fails, abort_on_error, task_running,
              task_interval, task_now, crashed, block_number, mined,
              requirement_func, fired, tick, taskVars>>

ritualVars == <<ritual_nodes, ritual_status, transcripts, aggregations, engine,
                decryption, posted, ritual_event>>

vars == <<planVars, nodeVars, lingoVars, coreVars, workVars, ritualVars>>

(* ------------------------------ helpers -------------------------------- *)
Addresses == 1..NumUrsulas

Range(s) == {s[i] : i \in DOMAIN s}

\* All orderings of a finite set (random.shuffle, list(set)).
Orderings(S) ==
    {s \in [1..Cardinality(S) -> S] : \A i, j \in DOMAIN s : i # j => s[i] # s[j]}

\* [x for x in s if Keep(x)]
RECURSIVE SelectSeqBy(_, _)
SelectSeqBy(s, keep) ==
    IF s = <<>> THEN <<>>
    ELSE (IF Head(s) \in keep THEN <<Head(s)>> ELSE <<>>) \o SelectSeqBy(Tail(s), keep)

\* d[k] = v on a dict modelled as a function with a finite domain.
DictSet(d, k, v) == [x \in DOMAIN d \cup {k} |-> IF x = k THEN v ELSE d[x]]

EmptyDict == [x \in {} |-> 0]

(* ---------------------- RetrievalPlan.__init__ -------------------------- *)
\* A retrieval kit: its capsule and the addresses already queried for it.
\* Capsule ids are canonical (the i-th kit's capsule is at most i), so two
\* kits may carry the same capsule.
RetrievalKits ==
    UNION {[1..n -> [capsule : 1..MaxKits, queried_addresses : SUBSET Addresses]]
           : n \in 1..MaxKits}

ValidKits(ks) == \A i \in DOMAIN ks : ks[i].capsule <= i

\* self._capsules (retrieval.py:61)
InitCapsules(ks) == [i \in DOMAIN ks |-> ks[i].capsule]

\* {retrieval_kit.capsule: set(retrieval_kit.queried_addresses) for ...}: for a
\* capsule carried by several kits the last kit's entry stays (retrieval.py:80).
InitQueried(ks) ==
    [c \in {ks[i].capsule : i \in DOMAIN ks} |->
        LET last == CHOOSE i \in DOMAIN ks :
                        /\ ks[i].capsule = c
                        /\ \A j \in DOMAIN ks : ks[j].capsule = c => j <= i
        IN  ks[last].queried_addresses]

\* self._processed_capsules: a defaultdict(set), absent keys read as set()
\* (retrieval.py:85-88).
InitProcessed(ks) ==
    [a \in Addresses |-> {ks[i].capsule : i \in {j \in DOMAIN ks : a \in ks[j].queried_addresses}}]

\* ursulas_to_contact_last (retrieval.py:93-95)
ContactLast(q) == UNION {q[c] : c \in DOMAIN q}

\* The pick orders __init__ can build: a shuffle of the destinations with the
\* already queried addresses filtered out, then list(ursulas_to_contact_last)
\* in whatever order the set iterates (retrieval.py:98-103).
PickOrders(dests, q) ==
    {SelectSeqBy(shuffled, dests \ ContactLast(q)) \o last :
        shuffled \in Orderings(dests), last \in Orderings(ContactLast(q))}

(* ---------------------- RetrievalPlan methods --------------------------- *)
\* packets of get_work_order for one Ursula (retrieval.py:114-116): the
\* positions of self._capsules not processed by her and below the threshold.
Packets(ursula_address) ==
    SelectSeq(capsules,
              LAMBDA capsule : /\ capsule \notin processed_capsules[ursula_address]
                               /\ Cardinality(queried_addresses[capsule]) < threshold)

\* get_work_order reading the head of the pick order without popping it.
RECURSIVE get_work_order_peek(_)
get_work_order_peek(order) ==
    IF order = <<>>
    THEN [raised |-> TRUE, ursula_address |-> 0, capsules |-> <<>>, pick_order |-> <<>>]
    ELSE IF Len(Packets(Head(order))) > 0
         THEN [raised |-> FALSE, ursula_address |-> Head(order),
               capsules |-> Packets(Head(order)), pick_order |-> order]
         ELSE get_work_order_peek(Tail(order))

\* RetrievalPlan.get_work_order on pick order `order`: pops addresses until one
\* has packets; raises RuntimeError("No Ursulas left") when the list runs out.
RECURSIVE get_work_order(_)
get_work_order(order) ==
    IF order = <<>>
    THEN [raised |-> TRUE, ursula_address |-> 0, capsules |-> <<>>, pick_order |-> <<>>]
    ELSE IF Len(Packets(Head(order))) > 0
         THEN [raised |-> FALSE, ursula_address |-> Head(order),
               capsules |-> Packets(Head(order)), pick_order |-> Tail(order)]
         ELSE get_work_order(Tail(order))

\* is_complete satisfied by one capsule at the threshold (any for all).
is_complete_any ==
    \/ ursulas_pick_order = <<>>
    \/ \E c \in DOMAIN queried_addresses : Cardinality(queried_addresses[c]) >= threshold

\* is_complete asking for more than `threshold` addresses (> for >=).
is_complete_strict ==
    \/ ursulas_pick_order = <<>>
    \/ \A c \in DOMAIN queried_addresses : Cardinality(queried_addresses[c]) > threshold

\* RetrievalPlan.is_complete (retrieval.py:142-148)
is_complete ==
    \/ ursulas_pick_order = <<>>
    \/ \A c \in DOMAIN queried_addresses : Cardinality(queried_addresses[c]) >= threshold

\* update that stores the cfrag but does not record the address as queried.
UpdateQueried_forgotten(work_order, cfrags) == queried_addresses

\* RetrievalPlan.update: for capsule, cfrag in cfrags.items() (retrieval.py:126-133)
UpdateQueried(work_order, cfrags) ==
    [c \in DOMAIN queried_addresses |->
        IF c \in DOMAIN cfrags THEN queried_addresses[c] \cup {work_order.ursula_address}
        ELSE queried_addresses[c]]

UpdateProcessed(work_order, cfrags) ==
    [processed_capsules EXCEPT ![work_order.ursula_address] = @ \cup DOMAIN cfrags]

UpdateResults(work_order, cfrags) ==
    [c \in DOMAIN results |->
        IF c \in DOMAIN cfrags THEN DictSet(results[c], work_order.ursula_address, cfrags[c])
        ELSE results[c]]

\* update_errors recording the error for the first capsule of the work order only.
update_errors_first(work_order, ursula_address, error_message) ==
    [c \in DOMAIN errors |->
        IF c = work_order.capsules[1]
        THEN DictSet(errors[c], ursula_address, error_message)
        ELSE errors[c]]

\* RetrievalPlan.update_errors (retrieval.py:135-140)
update_errors(work_order, ursula_address, error_message) ==
    [c \in DOMAIN errors |->
        IF c \in Range(work_order.capsules)
        THEN DictSet(errors[c], ursula_address, error_message)
        ELSE errors[c]]

(* ------------------ RetrievalClient._request_reencryption --------------- *)
\* What the middleware call can end in before a response is parsed.
TransportErrors == {"NodeSeemsToBeDown", "NotFound", "UnexpectedResponse", "InvalidResponse"}

\* What an Ursula can answer to a request carrying n capsules: a transport
\* error, or a ReencryptionResponse whose signature and cfrags are each good
\* or bad.
Answers(n) ==
    [kind : TransportErrors] \cup
    [kind : {"response"}, signature_ok : BOOLEAN, cfrags_ok : [1..n -> BOOLEAN]]

\* verify left out (the call commented out): every response is taken as verified.
Verify_skipped(answer) == "ok"

\* ReencryptionResponse.verify: InvalidSignature on a bad response signature,
\* VerificationError when a cfrag does not verify, else every cfrag verified.
Verify(answer) ==
    IF ~answer.signature_ok THEN "InvalidSignature"
    ELSE IF \E i \in DOMAIN answer.cfrags_ok : ~answer.cfrags_ok[i] THEN "VerificationError"
    ELSE "ok"

\* The exception _request_reencryption raises on `answer`, "ok" when it returns.
RequestOutcome(answer) ==
    IF answer.kind \in {"NodeSeemsToBeDown", "NotFound", "InvalidResponse"} THEN "RuntimeError"
    ELSE IF answer.kind = "UnexpectedResponse" THEN "UnexpectedResponse"
    ELSE Verify(answer)

\* {capsule: vcfrag for capsule, vcfrag in zip(request.capsules, verified_cfrags)}
\* (retrieval.py:296): for a capsule sent twice the later cfrag stays.
CfragDict(work_order, answer) ==
    [c \in Range(work_order.capsules) |->
        LET last == CHOOSE i \in DOMAIN work_order.capsules :
                        /\ work_order.capsules[i] = c
                        /\ \A j \in DOMAIN work_order.capsules :
                               work_order.capsules[j] = c => j <= i
        IN  [capsule |-> c, ursula |-> work_order.ursula_address,
             cfrag_ok |-> answer.cfrags_ok[last], signature_ok |-> answer.signature_ok]]


(* ----------------------- the /reencrypt handler ------------------------- *)
Policies == 1..NumPolicies

\* What evaluating one entry of the request's conditions ends in: None is a
\* null entry (no condition for that capsule); a ConditionLingo evaluates to
\* True or raises RequiredInput, Failed or some other exception.
Lingos == {"None", "True", "RequiredInput", "Failed", "Exception"}

\* What this_node._decrypt_kfrag ends in for the request's encrypted kfrag.
KFragOutcomes == {"ok", "DecryptionFailed", "InvalidSignature", "Exception"}

\* The request bytes: the core request (hrac, capsules, encrypted kfrag, Bob's
\* verifying key) and, after the delimiter when `has_conditions`, the list of
\* lingos.  bob_signature_ok tells whether the bytes are authenticated by
\* bob_verifying_key.
\* Bytes without the delimiter carry no lingo list.
Requests ==
    {req \in [hrac : Policies,
              capsules : {[i \in 1..n |-> i] : n \in 1..MaxCapsules},
              has_conditions : BOOLEAN,
              lingos : UNION {[1..n -> Lingos] : n \in 0..MaxLingos},
              encrypted_kfrag : KFragOutcomes,
              bob_signature_ok : BOOLEAN] :
        req.has_conditions \/ req.lingos = <<>>}

NoRequest == [hrac |-> 0]

\* The handler writing its audit record right after the kfrag was handed to
\* _decrypt_kfrag instead of after _reencrypt.
Outcome_stored_early(status, decrypted, evaluated, reencrypted, stored) ==
    [status |-> status, decrypted |-> decrypted, evaluated |-> evaluated,
     cfrags |-> reencrypted, stored |-> decrypted]

\* A handler outcome: the HTTP status, whether _decrypt_kfrag was called, the
\* positions whose lingo was evaluated (in order), the capsules handed to
\* _reencrypt (the response's cfrags) and whether the datastore was written.
Outcome(status, decrypted, evaluated, reencrypted, stored) ==
    [status |-> status, decrypted |-> decrypted, evaluated |-> evaluated,
     cfrags |-> reencrypted, stored |-> stored]

NoResponse == [status |-> 0, decrypted |-> FALSE, evaluated |-> <<>>,
               cfrags |-> <<>>, stored |-> FALSE]

Min(a, b) == IF a < b THEN a ELSE b

\* The handler without the `except lingo.Failed` clause: Failed falls through to
\* the generic handler.
ConditionFailureStatus_generic(outcome) ==
    IF outcome = "RequiredInput" THEN FORBIDDEN ELSE INTERNAL_SERVER_ERROR

\* The status for a lingo whose eval raises (server.py:233-248).
ConditionFailureStatus(outcome) ==
    IF outcome \in {"RequiredInput", "Failed"} THEN FORBIDDEN ELSE INTERNAL_SERVER_ERROR

\* The loop over packets = zip(lingos, capsules) from position i on
\* (server.py:221-251), then _reencrypt and the datastore write
\* (server.py:263-271).
RECURSIVE EnforceConditions(_, _, _, _)
EnforceConditions(req, i, evaluated, capsules_to_process) ==
    IF i > Min(Len(req.lingos), Len(req.capsules))
    THEN [raised |-> FALSE, status |-> OK, evaluated |-> evaluated,
          capsules_to_process |-> capsules_to_process]
    ELSE IF req.lingos[i] = "None"
    THEN EnforceConditions(req, i + 1, evaluated, Append(capsules_to_process, req.capsules[i]))
    ELSE IF req.lingos[i] # "True"
    THEN [raised |-> TRUE, status |-> ConditionFailureStatus(req.lingos[i]),
          evaluated |-> Append(evaluated, i), capsules_to_process |-> capsules_to_process]
    ELSE EnforceConditions(req, i + 1, Append(evaluated, i),
                           Append(capsules_to_process, req.capsules[i]))

\* The except clauses with the statuses of DecryptionFailed and InvalidSignature
\* exchanged.
DecryptFailureStatus_swapped(outcome) ==
    IF outcome = "DecryptionFailed" THEN UNAUTHORIZED
    ELSE IF outcome = "InvalidSignature" THEN FORBIDDEN
    ELSE BAD_REQUEST

\* The status for a kfrag that does not decrypt (server.py:198-212).
DecryptFailureStatus(outcome) ==
    IF outcome = "DecryptionFailed" THEN FORBIDDEN
    ELSE IF outcome = "InvalidSignature" THEN UNAUTHORIZED
    ELSE BAD_REQUEST

\* The whole handler on request `req`, the datastore write succeeding or not.
reencrypt(req, datastore_ok) ==
    IF ~req.has_conditions
    THEN \* ReencryptionRequest.from_bytes: `lingos` is unbound without the
         \* delimiter (core.py:113-120); the unhandled error is a 500.
         Outcome(INTERNAL_SERVER_ERROR, FALSE, <<>>, <<>>, FALSE)
    ELSE IF req.hrac \in revoked_policies
    THEN Outcome(UNAUTHORIZED, FALSE, <<>>, <<>>, FALSE)
    ELSE IF req.encrypted_kfrag # "ok"
    THEN Outcome(DecryptFailureStatus(req.encrypted_kfrag), TRUE, <<>>, <<>>, FALSE)
    ELSE LET enforced == EnforceConditions(req, 1, <<>>, <<>>) IN
         IF enforced.raised
         THEN Outcome(enforced.status, TRUE, enforced.evaluated, <<>>, FALSE)
         ELSE IF ~datastore_ok
         THEN \* datastore.describe raises after _reencrypt ran: no response
              \* is built, the unhandled error is a 500.
              Outcome(INTERNAL_SERVER_ERROR, TRUE, enforced.evaluated, <<>>, FALSE)
         ELSE Outcome(OK, TRUE, enforced.evaluated, enforced.capsules_to_process, TRUE)

NoDecryption == [bob |-> "none"]

NoEvent == [kind |-> "none"]

RitualIdle ==
    /\ ritual_nodes = {}
    /\ ritual_status = "NON_INITIATED"
    /\ transcripts = <<>>
    /\ aggregations = <<>>
    /\ engine = <<>>
    /\ decryption = NoDecryption
    /\ posted = <<>>
    /\ ritual_event = NoEvent

NoTick == [count |-> 0]

TaskIdle ==
    /\ running = FALSE
    /\ last_now = FALSE
    /\ loop_calls = 0
    /\ task_log = <<>>
    /\ handled = <<>>
    /\ reraised = FALSE

TrackerIdle ==
    /\ pending = EmptyDict
    /\ requirement = "None"
    /\ consecutive_fails = 0
    /\ abort_on_error = FALSE
    /\ task_running = FALSE
    /\ task_interval = 0
    /\ task_now = FALSE
    /\ crashed = FALSE
    /\ block_number = 0
    /\ mined = {}
    /\ requirement_func = "None"
    /\ fired = <<>>
    /\ tick = NoTick

WorkIdle == TrackerIdle /\ TaskIdle

NoObject == [cls |-> "none"]

CoreIdle ==
    /\ kit = NoObject
    /\ wire = <<>>
    /\ decoded = NoObject
    /\ rewire = <<>>
    /\ core_pc = "idle"

NoResult == [outcome |-> "none", args |-> <<>>]

NoTest == [comparator |-> "none"]

NoValue == [t |-> "none", v |-> 0, items |-> <<>>]

TestIdle ==
    /\ return_value_json = NoTest
    /\ return_value_test = NoTest
    /\ call_result = NoValue
    /\ condition_result = FALSE
    /\ test_pc = "idle"

NoConditions ==
    /\ conditions = <<>>
    /\ lingo_pc = "idle"
    /\ verified = <<>>
    /\ eval_result = NoResult

NoSerial == [form |-> "none"]

NotRestored == [raised |-> FALSE, conditions |-> <<>>]

SerialIdle ==
    /\ condition_lingo = <<>>
    /\ serial = NoSerial
    /\ restored = NotRestored
    /\ serial_pc = "idle"

LingoIdle == NoConditions /\ TestIdle /\ SerialIdle

NodeIdle ==
    /\ revoked_policies = {}
    /\ datastore = <<>>
    /\ datastore_up = TRUE
    /\ served = FALSE
    /\ request = NoRequest
    /\ response = NoResponse
    /\ revocations = {}

PlanIdle ==
    /\ destinations = {}
    /\ threshold = 0
    /\ kits = <<>>
    /\ known_nodes = {}
    /\ capsules = <<>>
    /\ results = EmptyDict
    /\ errors = EmptyDict
    /\ queried_addresses = EmptyDict
    /\ processed_capsules = EmptyDict
    /\ ursulas_pick_order = <<>>
    /\ pc = "idle"
    /\ work_orders = <<>>
    /\ requests = <<>>

\* The record the handler stores for a served request (server.py:267-268).
ReencryptionRequestModel == [bob_verifying_key |-> "bob"]

\* A node with any set of revoked policies and any number of stored records,
\* whose datastore accepts the next write or raises on it.
\* A run handles one request: the handler keeps nothing between requests but
\* the datastore and reads nothing but revoked_policies.
InitReenc ==
    /\ revoked_policies \in SUBSET Policies
    /\ datastore \in UNION {[1..n -> {ReencryptionRequestModel}] : n \in 0..MaxStored}
    /\ datastore_up \in BOOLEAN
    /\ served = FALSE
    /\ request = NoRequest
    /\ response = NoResponse
    /\ revocations = {}
    /\ PlanIdle
    /\ LingoIdle
    /\ CoreIdle
    /\ WorkIdle
    /\ RitualIdle

\* POST /reencrypt (server.py:166-271)
Reencrypt ==
    /\ ~served
    /\ \E req \in Requests :
        /\ request' = req
        /\ response' = reencrypt(req, datastore_up)
        /\ datastore' = IF reencrypt(req, datastore_up).stored
                        THEN Append(datastore, ReencryptionRequestModel)
                        ELSE datastore
    /\ served' = TRUE
    /\ UNCHANGED <<revoked_policies, datastore_up, revocations>>
    /\ UNCHANGED <<planVars, lingoVars, coreVars, workVars, ritualVars>>

\* RevocationOrder.from_bytes(request.data) (server.py:275): the HRAC of the
\* order, or 0 when the bytes are no revocation order and from_bytes raises.
RevocationOrders == Policies \cup {0}

\* The status POST /revoke answers with (server.py:273-277): the order is
\* parsed and 200 returned; an exception of from_bytes is a 500.
revoke(order) == IF order = 0 THEN INTERNAL_SERVER_ERROR ELSE OK

\* POST /revoke (server.py:273-277), before the request is served: the handler
\* writes nothing.
Revoke ==
    /\ ~served
    /\ \E order \in RevocationOrders :
          /\ order \notin revocations
          /\ revocations' = IF revoke(order) = OK THEN revocations \cup {order}
                            ELSE revocations
    /\ UNCHANGED <<revoked_policies, datastore, datastore_up, served, request, response>>
    /\ UNCHANGED <<planVars, lingoVars, coreVars, workVars, ritualVars>>

NextReenc == Reencrypt \/ Revoke

SpecReenc == InitReenc /\ [][NextReenc]_vars

(* --------------------------- ConditionLingo ----------------------------- *)
\* The elements of a condition list.  A ReencryptionCondition is named by what
\* its verify does with the given context: it returns (True, value) or
\* (False, value), raises RequiredInput, or raises another error.
Conditions == {"True", "False", "RequiredInput", "Error"}

\* Operator.OPERATORS (lingo.py:35)
OPERATORS == {"and", "or"}

\* Elements that are neither: an operator name outside OPERATORS and an object
\* of another type.
Others == {"xor", "junk"}

Elements == Conditions \cup OPERATORS \cup Others

ConditionLists == UNION {[1..n -> Elements] : n \in 0..MaxElements}

\* Operator.__init__ (lingo.py:37-40): returns for the names in OPERATORS, raises
\* for any other.
Operator(operator) == operator \in OPERATORS

\* _validate with the length test left out.
validate_alternation(lingo) ==
    \A index \in DOMAIN lingo :
        /\ (index % 2 = 1) => lingo[index] \in Conditions
        /\ (index % 2 = 0) => lingo[index] \in OPERATORS

\* ConditionLingo._validate (lingo.py:147-155): TRUE when it returns, FALSE when
\* it raises.  Python's index 0 is position 1 here, so the even Python indices
\* are the odd positions.  Only the names in OPERATORS exist as Operator
\* instances.
validate(lingo) ==
    /\ Len(lingo) % 2 # 0
    /\ \A index \in DOMAIN lingo :
        /\ (index % 2 = 1) => lingo[index] \in Conditions
        /\ (index % 2 = 0) => lingo[index] \in OPERATORS

\* ConditionLingo.from_list (lingo.py:157-161): every element of the payload is
\* deserialized, an operator entry through Operator.from_dict and so
\* Operator.__init__, and the constructor validates the outcome.
from_list(payload) ==
    /\ \A i \in DOMAIN payload :
          payload[i] \in (OPERATORS \cup {"xor"}) => Operator(payload[i])
    /\ validate(payload)

\* ConditionLingo.__process consumed by ' '.join (lingo.py:196-210) from position
\* i on: every condition is verified in list order until one raises; `tokens`
\* are the str() of the results and operators yielded so far.
RECURSIVE process(_, _, _, _)
process(lingo, i, tokens, calls) ==
    IF i > Len(lingo)
    THEN [raised |-> "no", tokens |-> tokens, verified |-> calls]
    ELSE IF lingo[i] \in OPERATORS
    THEN process(lingo, i + 1, Append(tokens, lingo[i]), calls)
    ELSE IF lingo[i] \in {"True", "False"}
    THEN process(lingo, i + 1, Append(tokens, lingo[i]), Append(calls, i))
    ELSE [raised |-> lingo[i], tokens |-> tokens, verified |-> Append(calls, i)]

\* Python's and_test on the tokens from position i: not_test ('and' not_test)*.
\* Gives the value and the position after the term.
RECURSIVE and_test(_, _)
and_test(tokens, i) ==
    IF i + 1 <= Len(tokens) /\ tokens[i + 1] = "and"
    THEN LET rest == and_test(tokens, i + 2)
         IN  [value |-> (tokens[i] = "True") /\ rest.value, next |-> rest.next]
    ELSE [value |-> tokens[i] = "True", next |-> i + 1]

\* Python's or_test on the tokens from position i: and_test ('or' and_test)*.
\* This is what eval(eval_string) computes (lingo.py:191-194).
RECURSIVE or_test(_, _)
or_test(tokens, i) ==
    LET term == and_test(tokens, i)
    IN  IF term.next <= Len(tokens)
        THEN term.value \/ or_test(tokens, term.next + 1)
        ELSE term.value

\* ConditionLingo.eval (lingo.py:207-214): what it returns or raises, with the
\* arguments of the exception, and the verify calls it made.
eval(lingo) ==
    LET data == process(lingo, 1, <<>>, <<>>)
    IN  IF data.raised # "no"
        THEN [outcome |-> data.raised, args |-> <<"condition">>, verified |-> data.verified]
        ELSE IF or_test(data.tokens, 1)
        THEN [outcome |-> "True", args |-> <<>>, verified |-> data.verified]
        ELSE [outcome |-> "Failed", args |-> <<>>, verified |-> data.verified]

\* Any list of elements is handed to ConditionLingo.
InitLingo ==
    /\ conditions \in ConditionLists
    /\ lingo_pc = "given"
    /\ verified = <<>>
    /\ eval_result = NoResult
    /\ TestIdle
    /\ SerialIdle
    /\ PlanIdle
    /\ NodeIdle
    /\ CoreIdle
    /\ WorkIdle
    /\ RitualIdle

\* ConditionLingo(conditions) (lingo.py:136-145)
Construct ==
    /\ lingo_pc = "given"
    /\ lingo_pc' = IF validate(conditions) THEN "accepted" ELSE "rejected"
    /\ UNCHANGED <<conditions, verified, eval_result, testVars, serialVars>>
    /\ UNCHANGED <<planVars, nodeVars, coreVars, workVars, ritualVars>>

\* ConditionLingo.from_list(payload), and from_json and from_base64, which decode
\* and call it (lingo.py:157-185)
FromList ==
    /\ lingo_pc = "given"
    /\ lingo_pc' = IF from_list(conditions) THEN "accepted" ELSE "rejected"
    /\ UNCHANGED <<conditions, verified, eval_result, testVars, serialVars>>
    /\ UNCHANGED <<planVars, nodeVars, coreVars, workVars, ritualVars>>

\* lingo.eval(**context) (lingo.py:207-214)
Eval ==
    /\ lingo_pc = "accepted"
    /\ lingo_pc' = "evaluated"
    /\ verified' = eval(conditions).verified
    /\ eval_result' = [outcome |-> eval(conditions).outcome, args |-> eval(conditions).args]
    /\ UNCHANGED <<conditions, testVars, serialVars>>
    /\ UNCHANGED <<planVars, nodeVars, coreVars, workVars, ritualVars>>

NextLingo == Construct \/ FromList \/ Eval

SpecLingo == InitLingo /\ [][NextLingo]_vars

(* --------------------------- ReturnValueTest ---------------------------- *)
\* Python values: a type, a number for the value of an atom, the items of a
\* tuple or list.  The str of type "str" are the hex texts "0x..", an address
\* or HexBytes(...).hex(), named by their number; the bytes are named by the
\* number their hex text denotes.
PyBool(b) == [t |-> "bool", v |-> b, items |-> <<>>]
PyInt(n) == [t |-> "int", v |-> n, items |-> <<>>]
PyStr(n) == [t |-> "str", v |-> n, items |-> <<>>]
PyBytes(n) == [t |-> "bytes", v |-> n, items |-> <<>>]
PyTuple(items) == [t |-> "tuple", v |-> 0, items |-> items]
PyList(items) == [t |-> "list", v |-> 0, items |-> items]

Bools == {PyBool(b) : b \in {0, 1}}
Ints == {PyInt(n) : n \in 0..MaxValue}
HexStrs == {PyStr(n) : n \in 1..MaxValue}
Bytes == {PyBytes(n) : n \in 1..MaxValue}

\* What a contract call returns: a bool, an integer, an address, bytes, a tuple
\* of these, or a tuple with a tuple in it.
ResultAtoms == Bools \cup Ints \cup HexStrs \cup Bytes
ItemAtoms == {PyBool(1), PyInt(1), PyStr(1), PyBytes(1), PyBytes(2)}
FlatTuples == {PyTuple(items) : items \in UNION {[1..n -> ItemAtoms] : n \in 1..MaxItems}}
NestedTuples == {PyTuple(<<PyInt(1), PyTuple(<<a>>)>>) : a \in ItemAtoms}
CallResults == ResultAtoms \cup FlatTuples \cup NestedTuples

\* What the value of a returnValueTest can be: JSON has booleans, numbers,
\* strings and lists (bytes are given by their hex text, tuples as lists); a
\* caller that has aligned the value with the ABI passes bytes and tuples.
ValueAtoms == ItemAtoms \cup {PyInt(2), PyStr(2)}
FlatValues == UNION {{PyList(items), PyTuple(items)} :
                        items \in UNION {[1..n -> ValueAtoms] : n \in 1..MaxItems}}
NestedValues == UNION {{PyList(<<PyInt(1), PyList(<<a>>)>>),
                        PyTuple(<<PyInt(1), PyTuple(<<a>>)>>)} : a \in ValueAtoms}
ComparatorValues == ResultAtoms \cup FlatValues \cup NestedValues

\* The value has the type of the result: the ABI type of the output.
RECURSIVE Compatible(_, _)
Compatible(result, value) ==
    IF result.t = "tuple"
    THEN /\ value.t \in {"tuple", "list"}
         /\ Len(value.items) = Len(result.items)
         /\ \A i \in DOMAIN result.items : Compatible(result.items[i], value.items[i])
    ELSE IF result.t = "bytes" THEN value.t \in {"bytes", "str"}
    ELSE value.t = result.t

\* index: None, or a position of the tuple (Python counts from 0).
NoIndex == -1
Indices == {NoIndex} \cup 0..(MaxItems - 1)

\* ReturnValueTest.COMPARATORS (lingo.py:73-81)
COMPARATORS == {"==", "!=", ">", "<", "<=", ">="}

\* ast.literal_eval(str(value)) (lingo.py:106-110): the str of a bool, an
\* integer, bytes, a tuple or a list is its repr, which literal_eval reads
\* back, the strings inside a tuple or list in quotes and so as strings; the
\* str of a string is its bare text, and the text 0x.. is read as an integer
\* literal.
sanitize_value(value) == IF value.t = "str" THEN PyInt(value.v) ELSE value

\* operator.eq on Python values (lingo.py:73-74): a bool is an integer, bytes
\* equal only bytes, a tuple only a tuple, a list only a list.
RECURSIVE eq(_, _)
eq(left, right) ==
    IF left.t \in {"bool", "int"}
    THEN right.t \in {"bool", "int"} /\ left.v = right.v
    ELSE IF left.t \in {"tuple", "list"}
    THEN /\ right.t = left.t
         /\ Len(left.items) = Len(right.items)
         /\ \A i \in DOMAIN left.items : eq(left.items[i], right.items[i])
    ELSE right.t = left.t /\ left.v = right.v

\* The ordering of Python values operator.gt, lt, le and ge compute
\* (lingo.py:75-79): numbers by value, bytes with bytes and str with str in
\* lexicographic order, a tuple with a tuple and a list with a list by the
\* first pair of items that are not equal, or by length when one is a prefix of
\* the other; any other pair of types is a TypeError.
RECURSIVE compare(_, _)
compare(left, right) ==
    LET by_number(a, b) == IF a < b THEN "lt" ELSE IF a > b THEN "gt" ELSE "eq"
    IN  IF left.t \in {"bool", "int"} /\ right.t \in {"bool", "int"}
        THEN by_number(left.v, right.v)
        ELSE IF left.t \in {"bytes", "str"} /\ right.t = left.t
        THEN by_number(left.v, right.v)
        ELSE IF left.t \in {"tuple", "list"} /\ right.t = left.t
        THEN LET common == 1..Min(Len(left.items), Len(right.items))
                 differ == {i \in common : ~eq(left.items[i], right.items[i])}
             IN  IF differ = {} THEN by_number(Len(left.items), Len(right.items))
                 ELSE LET first == CHOOSE i \in differ : \A j \in differ : i <= j
                      IN  compare(left.items[first], right.items[first])
        ELSE "TypeError"

\* The comparator function raises TypeError: operator.eq and ne never do.
raises_TypeError(self, data) ==
    /\ self.comparator \notin {"==", "!="}
    /\ compare(sanitize_value(data), sanitize_value(self.value)) = "TypeError"

\* ReturnValueTest.eval (lingo.py:112-122)
ReturnValueTest_eval(self, data) ==
    LET left_operand == sanitize_value(data)
        right_operand == sanitize_value(self.value)
        order == compare(left_operand, right_operand)
    IN  CASE self.comparator = "==" -> eq(left_operand, right_operand)
          [] self.comparator = "!=" -> ~eq(left_operand, right_operand)
          [] self.comparator = ">" -> order = "gt"
          [] self.comparator = "<" -> order = "lt"
          [] self.comparator = "<=" -> order \in {"lt", "eq"}
          [] self.comparator = ">=" -> order \in {"gt", "eq"}

\* ReturnValueTestSchema().load (lingo.py:83-90): the schema has the fields
\* comparator and value, and make() calls ReturnValueTest(**data), whose
\* __init__ takes comparator and value (lingo.py:91).  An index entry is
\* unknown to the schema: the load raises or leaves it out, as the base schema
\* is set up; neither keeps it.
ReturnValueTestSchema_load(json) ==
    LET loaded == [comparator |-> json.comparator, value |-> json.value]
    IN  IF json.index = NoIndex THEN {loaded} ELSE {loaded, [comparator |-> "raised"]}

\* The returnValueTest entries: a comparator, a value, and an index or none,
\* together with a call result the value has the type of.
InitTest ==
    /\ call_result \in CallResults
    /\ return_value_json \in
          {json \in [comparator : COMPARATORS, value : ComparatorValues, index : Indices] :
              IF json.index = NoIndex
              THEN Compatible(call_result, json.value)
              ELSE /\ call_result.t = "tuple"
                   /\ json.index < Len(call_result.items)
                   /\ Compatible(call_result.items[json.index + 1], json.value)}
    /\ return_value_test = NoTest
    /\ condition_result = FALSE
    /\ test_pc = "given"
    /\ NoConditions
    /\ SerialIdle
    /\ PlanIdle
    /\ NodeIdle
    /\ CoreIdle
    /\ WorkIdle
    /\ RitualIdle

\* The condition is loaded from its JSON.
LoadTest ==
    /\ test_pc = "given"
    /\ \E loaded \in ReturnValueTestSchema_load(return_value_json) :
          /\ return_value_test' = loaded
          /\ test_pc' = IF loaded.comparator = "raised" THEN "rejected" ELSE "loaded"
    /\ UNCHANGED <<return_value_json, call_result, condition_result>>
    /\ UNCHANGED <<conditions, lingo_pc, verified, eval_result, serialVars>>
    /\ UNCHANGED <<planVars, nodeVars, coreVars, workVars, ritualVars>>

\* return_value_test.eval(call_result), as the condition's verify calls it.
EvalTest ==
    /\ test_pc = "loaded"
    /\ IF raises_TypeError(return_value_test, call_result)
       THEN /\ test_pc' = "raised"
            /\ UNCHANGED condition_result
       ELSE /\ test_pc' = "evaluated"
            /\ condition_result' = ReturnValueTest_eval(return_value_test, call_result)
    /\ UNCHANGED <<return_value_json, return_value_test, call_result>>
    /\ UNCHANGED <<conditions, lingo_pc, verified, eval_result, serialVars>>
    /\ UNCHANGED <<planVars, nodeVars, coreVars, workVars, ritualVars>>

NextTest == LoadTest \/ EvalTest

SpecTest == InitTest /\ [][NextTest]_vars

(* -------------------- ConditionLingo serialization ---------------------- *)
\* The elements of a lingo: an Operator, named by its operator, and a
\* condition, named by the comparator and the value of its return value test.
OperatorElement(operator) ==
    [kind |-> "operator", operator |-> operator, comparator |-> "", value |-> NoValue]
ConditionElement(comparator, value) ==
    [kind |-> "condition", operator |-> "", comparator |-> comparator, value |-> value]

\* The values of the return value tests: a bool, an integer, a hex text, a
\* list as JSON gives it, a tuple and a nested tuple as Python code gives them.
LingoValues ==
    {PyBool(1), PyInt(MaxValue), PyStr(1),
     PyList(<<PyInt(1), PyStr(MaxValue)>>),
     PyTuple(<<PyInt(1), PyStr(MaxValue)>>),
     PyTuple(<<PyInt(1), PyTuple(<<PyBool(0)>>)>>)}

LingoElements ==
    {OperatorElement(operator) : operator \in OPERATORS}
        \cup {ConditionElement(comparator, value) : comparator \in {"==", ">"}, value \in LingoValues}

\* ReturnValueTest.__init__ (lingo.py:91-104): TRUE when it returns.  Every
\* value here is one ast.literal_eval reads.
ReturnValueTest_init(comparator, value) == comparator \in COMPARATORS

\* ConditionLingo.__init__ (lingo.py:136-145) on a list of elements: _validate
\* looks at the type of each element only.
ConditionLingo(elements) ==
    validate([i \in DOMAIN elements |->
                IF elements[i].kind = "operator" THEN elements[i].operator ELSE "True"])

\* The lingos the constructor accepts.
ValidLingos ==
    {elements \in UNION {[1..n -> LingoElements] : n \in 1..MaxLingoLen} :
        ConditionLingo(elements)}

\* Operator.to_dict (lingo.py:45-46)
Operator_to_dict(self) ==
    [keys |-> {"operator"}, operator |-> self.operator, comparator |-> "", value |-> NoValue]

\* condition.to_dict: the dump of the condition's schema, with the entry
\* returnValueTest of ReturnValueTestSchema (lingo.py:83-89): the comparator
\* and the value as it is (fields.Raw).
Condition_to_dict(self) ==
    [keys |-> {"returnValueTest"}, operator |-> "",
     comparator |-> self.comparator, value |-> self.value]

\* to_list that leaves the operators out.
to_list_conditions_only(self) ==
    LET dicts == [i \in DOMAIN self |->
                    IF self[i].kind = "operator" THEN Operator_to_dict(self[i])
                    ELSE Condition_to_dict(self[i])]
    IN  SelectSeq(dicts, LAMBDA d : "operator" \notin d.keys)

\* ConditionLingo.to_list (lingo.py:163-165)
to_list(self) ==
    [i \in DOMAIN self |->
        IF self[i].kind = "operator" THEN Operator_to_dict(self[i])
        ELSE Condition_to_dict(self[i])]

\* json.dumps of a value (lingo.py:168): true or false, a number, a string, and
\* an array for a list and for a tuple alike.
RECURSIVE json_dumps(_)
json_dumps(value) ==
    CASE value.t = "bool" -> [t |-> "true/false", v |-> value.v, items |-> <<>>]
      [] value.t = "int" -> [t |-> "number", v |-> value.v, items |-> <<>>]
      [] value.t = "str" -> [t |-> "string", v |-> value.v, items |-> <<>>]
      [] value.t \in {"tuple", "list"} ->
            [t |-> "array", v |-> 0,
             items |-> [i \in DOMAIN value.items |-> json_dumps(value.items[i])]]
      [] OTHER -> value

\* json.loads of a value (lingo.py:173): an array is read as a list.
RECURSIVE json_loads(_)
json_loads(text) ==
    CASE text.t = "true/false" -> PyBool(text.v)
      [] text.t = "number" -> PyInt(text.v)
      [] text.t = "string" -> PyStr(text.v)
      [] text.t = "array" ->
            PyList([i \in DOMAIN text.items |-> json_loads(text.items[i])])
      [] OTHER -> text

\* ConditionLingo.to_json (lingo.py:167-169): the JSON text of the list of
\* dicts, every value in its JSON form.
to_json(self) ==
    LET payload == to_list(self)
    IN  [i \in DOMAIN payload |-> [payload[i] EXCEPT !.value = json_dumps(@)]]

\* base64.b64encode and b64decode (lingo.py:178, 183)
b64encode(data) == [b64 |-> data]
b64decode(data) == data.b64

\* ConditionLingo.to_base64 (lingo.py:177-179)
to_base64(self) == b64encode(to_json(self))

\* Operator.from_dict (lingo.py:48-55): the operator, or "raised".
Operator_from_dict(data) ==
    IF "operator" \in data.keys /\ Operator(data.operator)
    THEN OperatorElement(data.operator)
    ELSE [kind |-> "raised"]

\* _deserialize_condition_lingo (lingo.py:159): a dict with an operator entry
\* is an Operator, any other a condition, loaded through its schema and so
\* through ReturnValueTest(**data) (lingo.py:87-89).
deserialize_condition_lingo(data) ==
    IF "operator" \in data.keys THEN Operator_from_dict(data)
    ELSE IF ReturnValueTest_init(data.comparator, data.value)
    THEN ConditionElement(data.comparator, data.value)
    ELSE [kind |-> "raised"]

\* ConditionLingo.from_list (lingo.py:157-161) on a list of dicts: the lingo, or
\* that it raised.
lingo_from_list(payload) ==
    LET elements == [i \in DOMAIN payload |-> deserialize_condition_lingo(payload[i])]
    IN  IF (\A i \in DOMAIN elements : elements[i].kind # "raised") /\ ConditionLingo(elements)
        THEN [raised |-> FALSE, conditions |-> elements]
        ELSE [raised |-> TRUE, conditions |-> <<>>]

\* ConditionLingo.from_json (lingo.py:171-175)
from_json(data) ==
    lingo_from_list([i \in DOMAIN data |-> [data[i] EXCEPT !.value = json_loads(@)]])

\* ConditionLingo.from_base64 (lingo.py:181-185)
from_base64(data) == from_json(b64decode(data))

SerialForms == {"list", "json", "base64"}

\* A lingo the constructor accepted.
InitSerial ==
    /\ condition_lingo \in ValidLingos
    /\ serial = NoSerial
    /\ restored = NotRestored
    /\ serial_pc = "given"
    /\ NoConditions
    /\ TestIdle
    /\ PlanIdle
    /\ NodeIdle
    /\ CoreIdle
    /\ WorkIdle
    /\ RitualIdle

\* lingo.to_list(), lingo.to_json() or lingo.to_base64()
SerializeLingo ==
    /\ serial_pc = "given"
    /\ \E form \in SerialForms :
          serial' = [form |-> form,
                     data |-> CASE form = "list" -> to_list(condition_lingo)
                                [] form = "json" -> to_json(condition_lingo)
                                [] form = "base64" -> to_base64(condition_lingo)]
    /\ serial_pc' = "serialized"
    /\ UNCHANGED <<condition_lingo, restored>>
    /\ UNCHANGED <<conditions, lingo_pc, verified, eval_result, testVars>>
    /\ UNCHANGED <<planVars, nodeVars, coreVars, workVars, ritualVars>>

\* ConditionLingo.from_list, from_json or from_base64 of what was written.
RestoreLingo ==
    /\ serial_pc = "serialized"
    /\ restored' = CASE serial.form = "list" -> lingo_from_list(serial.data)
                     [] serial.form = "json" -> from_json(serial.data)
                     [] serial.form = "base64" -> from_base64(serial.data)
    /\ serial_pc' = "restored"
    /\ UNCHANGED <<condition_lingo, serial>>
    /\ UNCHANGED <<conditions, lingo_pc, verified, eval_result, testVars>>
    /\ UNCHANGED <<planVars, nodeVars, coreVars, workVars, ritualVars>>

NextSerial == SerializeLingo \/ RestoreLingo

SpecSerial == InitSerial /\ [][NextSerial]_vars

(* ------------------------- bolt-on conditions --------------------------- *)
\* Bytes are sequences of tokens: the bytes of a core object ("a", "b"), the
\* four bytes of BoltOnConditions._DELIMITER as one token, and the bytes of a
\* serialized condition ("l") or null entry ("n").
DELIMITER == "0xBC"

\* bytes(core_instance): nucypher_core's encoding, free of the delimiter.
CoreBytes == UNION {[1..n -> {"a", "b"}] : n \in 1..MaxCoreBytes}

\* Condition objects: a ConditionLingo, and a ConditionLingo whose serialized
\* text holds the byte sequence 0xBC.
LingoObjects == {"lingo", "lingoBC"}

\* The objects: a kit carries one ConditionLingo or None, a request a tuple of
\* lingos and None entries.
Kits == [cls : {"MessageKit", "RetrievalKit"}, core : CoreBytes,
         conditions : {"None"} \cup LingoObjects]

ReencryptionRequests ==
    [cls : {"ReencryptionRequest"}, core : CoreBytes,
     conditions : UNION {[1..n -> {"None"} \cup LingoObjects] : n \in 0..MaxLingos}]

\* bytes(ConditionLingo) and the text of one entry of the lingo list.
lingo_bytes(l) ==
    IF l = "None" THEN <<"n">>
    ELSE IF l = "lingo" THEN <<"l">>
    ELSE <<"l", DELIMITER, "l">>

\* base64.b64encode(json.dumps([l.to_list() if l else None ...])) (core.py:126-127)
RECURSIVE b64_lingos(_)
b64_lingos(lingos) ==
    IF lingos = <<>> THEN <<>>
    ELSE lingo_bytes(Head(lingos)) \o b64_lingos(Tail(lingos))

\* json.loads(base64.b64decode(lingos_bytes)) and from_list per entry
\* (core.py:116-117), on bytes without the delimiter.
RECURSIVE lingos_from_b64(_)
lingos_from_b64(data) ==
    IF data = <<>> THEN <<>>
    ELSE <<IF Head(data) = "n" THEN "None" ELSE "lingo">> \o lingos_from_b64(Tail(data))

\* BoltOnConditions.__bytes__ (core.py:35-40) and ReencryptionRequest.__bytes__
\* (core.py:122-129): the delimiter and the payload follow the core bytes only
\* when self.conditions is truthy.
to_bytes(obj) ==
    IF obj.cls = "ReencryptionRequest"
    THEN IF obj.conditions # <<>>
         THEN obj.core \o <<DELIMITER>> \o b64_lingos(obj.conditions)
         ELSE obj.core
    ELSE IF obj.conditions # "None"
         THEN obj.core \o <<DELIMITER>> \o lingo_bytes(obj.conditions)
         ELSE obj.core

\* data.split(cls._DELIMITER): the pieces between the delimiters.
RECURSIVE split(_, _)
split(data, piece) ==
    IF data = <<>> THEN <<piece>>
    ELSE IF Head(data) = DELIMITER THEN <<piece>> \o split(Tail(data), <<>>)
    ELSE split(Tail(data), Append(piece, Head(data)))

\* BoltOnConditions._parse (core.py:42-47) on data that holds the delimiter:
\* unpacking the split into two names raises ValueError unless there are
\* exactly two pieces.
parse(data) ==
    LET pieces == split(data, <<>>)
    IN  IF Len(pieces) # 2
        THEN [raised |-> TRUE, data |-> <<>>, condition_bytes |-> <<>>]
        ELSE [raised |-> FALSE, data |-> pieces[1], condition_bytes |-> pieces[2]]

Raised(error) == [cls |-> "raised", error |-> error]

\* ReencryptionRequest.from_bytes (core.py:112-120): without the delimiter the
\* local `lingos` is unbound when the constructor is called.
\* BoltOnConditions.from_bytes (core.py:49-57), for the two kits: the parsed
\* condition is passed as `decryption_condition`, which __init__ (core.py:20-28)
\* takes into **kwargs and drops, as core_instance is given: self.conditions is
\* None.  ContractCondition.from_bytes is taken to return.
from_bytes(cls, data) ==
    IF cls = "ReencryptionRequest"
    THEN IF DELIMITER \notin Range(data)
         THEN Raised("UnboundLocalError")
         ELSE IF parse(data).raised THEN Raised("ValueError")
         ELSE [cls |-> cls, core |-> parse(data).data,
               conditions |-> lingos_from_b64(parse(data).condition_bytes)]
    ELSE IF DELIMITER \notin Range(data)
         THEN [cls |-> cls, core |-> data, conditions |-> "None"]
         ELSE IF parse(data).raised THEN Raised("ValueError")
         ELSE [cls |-> cls, core |-> parse(data).data, conditions |-> "None"]

\* Any kit or request.
InitCore ==
    /\ kit \in Kits \cup ReencryptionRequests
    /\ wire = <<>>
    /\ decoded = NoObject
    /\ rewire = <<>>
    /\ core_pc = "object"
    /\ PlanIdle
    /\ NodeIdle
    /\ LingoIdle
    /\ WorkIdle
    /\ RitualIdle

\* bytes(kit)
Serialize ==
    /\ core_pc = "object"
    /\ wire' = to_bytes(kit)
    /\ core_pc' = "serialized"
    /\ UNCHANGED <<kit, decoded, rewire>>
    /\ UNCHANGED <<planVars, nodeVars, lingoVars, workVars, ritualVars>>

\* cls.from_bytes(wire)
Deserialize ==
    /\ core_pc = "serialized"
    /\ decoded' = from_bytes(kit.cls, wire)
    /\ core_pc' = "decoded"
    /\ UNCHANGED <<kit, wire, rewire>>
    /\ UNCHANGED <<planVars, nodeVars, lingoVars, workVars, ritualVars>>

\* bytes(decoded), when from_bytes returned
Reserialize ==
    /\ core_pc = "decoded"
    /\ decoded.cls # "raised"
    /\ rewire' = to_bytes(decoded)
    /\ core_pc' = "reserialized"
    /\ UNCHANGED <<kit, wire, decoded>>
    /\ UNCHANGED <<planVars, nodeVars, lingoVars, workVars, ritualVars>>

NextCore == Serialize \/ Deserialize \/ Reserialize

SpecCore == InitCore /\ [][NextCore]_vars

(* ----------------------------- WorkTracker ------------------------------ *)
\* constant_sorrow's UNTRACKED_PENDING_TRANSACTION, the marker that stands for a
\* txhash; the txhashes are 1, 2, ...
UNTRACKED_PENDING_TRANSACTION == 0

\* WorkTrackerBase.random_interval (token.py:603-607): the values it can return.
random_interval(fails) ==
    IF fails > 0 THEN {INTERVAL_FLOOR} ELSE INTERVAL_FLOOR..INTERVAL_CEIL

\* A consistency test that also fails when the mempool holds fewer.
commitments_tracker_is_consistent_exact(pend, txs_in_mempool) ==
    Cardinality(DOMAIN pend) = txs_in_mempool

\* __commitments_tracker_is_consistent (token.py:678-690), txs_in_mempool being
\* the pending minus the latest transaction count of the operator.
commitments_tracker_is_consistent(pend, txs_in_mempool) ==
    IF Cardinality(DOMAIN pend) = txs_in_mempool THEN TRUE
    ELSE IF txs_in_mempool > Cardinality(DOMAIN pend) THEN FALSE
    ELSE TRUE

\* __track_pending_commitments (token.py:692-725): the entries with a receipt
\* are deleted, then the marker is set under key 0 if the mempool holds more
\* transactions than are tracked.  Gives the new pending, the returned value
\* and whether the marker was set.
track_pending_commitments(pend, receipts, txs_in_mempool) ==
    LET kept == [k \in {k \in DOMAIN pend :
                           \/ pend[k] = UNTRACKED_PENDING_TRANSACTION
                           \/ pend[k] \notin receipts} |-> pend[k]]
    IN  IF ~commitments_tracker_is_consistent(kept, txs_in_mempool)
        THEN [pending |-> DictSet(kept, 0, UNTRACKED_PENDING_TRANSACTION), unmined |-> TRUE,
              injected |-> TRUE]
        ELSE [pending |-> kept, unmined |-> DOMAIN kept # {}, injected |-> FALSE]

\* __should_do_work_now (token.py:665-672); r is what the requirement callable
\* returns: "True", "False", or "NotBool" for a value that is not a bool.
should_do_work_now(r) ==
    IF requirement = "None" THEN "True"
    ELSE IF r = "NotBool" THEN "ValueError"
    ELSE r

\* _do_work that goes on to fire a commitment with transactions pending.
do_work_while_pending(b, receipts, txs_in_mempool, r, bonded, interval) ==
    LET tracked == track_pending_commitments(pending, receipts, txs_in_mempool)
    IN  IF should_do_work_now(r) = "ValueError"
        THEN [raised |-> "ValueError", pending |-> tracked.pending,
              interval |-> interval, fired |-> 0]
        ELSE IF should_do_work_now(r) = "False" \/ ~bonded
        THEN [raised |-> "no", pending |-> tracked.pending,
              interval |-> interval, fired |-> 0]
        ELSE [raised |-> "no", pending |-> DictSet(tracked.pending, b, Len(fired) + 1),
              interval |-> interval, fired |-> Len(fired) + 1]

\* WorkTrackerBase._do_work (token.py:758-794) at block b: what it raises, the
\* pending and the task interval it leaves, the txhash it fired (0 for none).
\* self.__handle_replacement_commitment and self.__fire_replacement_commitment
\* are name-mangled to _WorkTrackerBase__..., while the methods are defined as
\* _handle_replacement_commitment and _fire_replacement_commitment
\* (token.py:727, 732): the call of token.py:775 raises AttributeError.
do_work(b, receipts, txs_in_mempool, r, bonded, interval) ==
    LET tracked == track_pending_commitments(pending, receipts, txs_in_mempool)
    IN  IF tracked.unmined
        THEN [raised |-> "AttributeError", pending |-> tracked.pending,
              interval |-> task_interval, fired |-> 0]
        ELSE IF should_do_work_now(r) = "ValueError"
        THEN [raised |-> "ValueError", pending |-> tracked.pending,
              interval |-> interval, fired |-> 0]
        ELSE IF should_do_work_now(r) = "False" \/ ~bonded
        THEN [raised |-> "no", pending |-> tracked.pending,
              interval |-> interval, fired |-> 0]
        ELSE [raised |-> "no", pending |-> DictSet(tracked.pending, b, Len(fired) + 1),
              interval |-> interval, fired |-> Len(fired) + 1]

\* A WorkTracker as __init__ leaves it (token.py:584-601), abort_on_error set
\* or not, watching a chain at block 1.
InitWork ==
    /\ pending = EmptyDict
    /\ requirement = "None"
    /\ consecutive_fails = 0
    /\ abort_on_error \in BOOLEAN
    /\ task_running = FALSE
    /\ task_interval = 0
    /\ task_now = FALSE
    /\ crashed = FALSE
    /\ block_number = 1
    /\ mined = {}
    /\ requirement_func = "None"
    /\ fired = <<>>
    /\ tick = NoTick
    /\ TaskIdle
    /\ PlanIdle
    /\ NodeIdle
    /\ LingoIdle
    /\ CoreIdle
    /\ RitualIdle

\* The operator calls start(commit_now, requirement_func) on the new tracker
\* (token.py:619-637).
Start ==
    /\ ~task_running
    /\ ~crashed
    /\ task_interval = 0
    /\ \E func \in {"None", "callable"}, commit_now \in BOOLEAN,
          interval \in random_interval(consecutive_fails) :
        /\ requirement' = func
        /\ requirement_func' = func
        /\ task_now' = commit_now
        /\ task_interval' = interval
    /\ task_running' = TRUE
    /\ UNCHANGED <<pending, consecutive_fails, abort_on_error, crashed, block_number,
                   mined, fired, tick>>
    /\ UNCHANGED taskVars
    /\ UNCHANGED <<planVars, nodeVars, lingoVars, coreVars, ritualVars>>

\* One call of _do_work by the looping call and, when it raises, the errback
\* handle_working_errors (token.py:647-663): with abort_on_error the task stays
\* stopped and the failure is re-raised; without, the fails are counted and
\* start(commit_now) is called again, which sets __requirement to its default
\* None (token.py:630).
Tick ==
    /\ task_running
    /\ \E txs_in_mempool \in 0..MaxMempool, r \in {"True", "False", "NotBool"},
          bonded \in BOOLEAN, interval \in random_interval(consecutive_fails) :
        LET work == do_work(block_number, mined, txs_in_mempool, r, bonded, interval)
        IN  /\ work.fired # 0 => Len(fired) < MaxTxs
            /\ (work.raised # "no" /\ ~abort_on_error) => consecutive_fails < MaxFails
            /\ pending' = work.pending
            /\ fired' = IF work.fired # 0 THEN Append(fired, work.fired) ELSE fired
            /\ tick' = [count |-> 1, block |-> block_number, receipts |-> mined,
                        before |-> pending, mempool |-> txs_in_mempool,
                        reconciled |-> track_pending_commitments(pending, mined,
                                                                 txs_in_mempool).pending,
                        injected |-> track_pending_commitments(pending, mined,
                                                               txs_in_mempool).injected,
                        required |-> r, raised |-> work.raised, fired |-> work.fired,
                        failures |-> IF work.raised = "no" THEN 0
                                     ELSE IF tick.count = 0 THEN 1
                                     ELSE tick.failures + 1]
            /\ IF work.raised = "no"
               THEN /\ task_interval' = work.interval
                    /\ UNCHANGED <<requirement, consecutive_fails, task_running,
                                   task_now, crashed>>
               ELSE IF abort_on_error
               THEN /\ task_running' = FALSE
                    /\ crashed' = TRUE
                    /\ task_interval' = work.interval
                    /\ UNCHANGED <<requirement, consecutive_fails, task_now>>
               ELSE /\ task_now' = (consecutive_fails < 1)
                    /\ consecutive_fails' = consecutive_fails + 1
                    /\ requirement' = "None"
                    /\ task_running' = TRUE
                    /\ task_interval' \in random_interval(consecutive_fails + 1)
                    /\ UNCHANGED crashed
    /\ UNCHANGED <<abort_on_error, block_number, mined, requirement_func>>
    /\ UNCHANGED taskVars
    /\ UNCHANGED <<planVars, nodeVars, lingoVars, coreVars, ritualVars>>

\* The chain grows by a block.
NewBlock ==
    /\ block_number < MaxBlock
    /\ block_number' = block_number + 1
    /\ UNCHANGED <<pending, requirement, consecutive_fails, abort_on_error, task_running,
                   task_interval, task_now, crashed, mined, requirement_func, fired, tick>>
    /\ UNCHANGED taskVars
    /\ UNCHANGED <<planVars, nodeVars, lingoVars, coreVars, ritualVars>>

\* A fired transaction is mined: from now on it has a receipt.
Mine ==
    /\ \E txhash \in (1..Len(fired)) \ mined : mined' = mined \cup {txhash}
    /\ UNCHANGED <<pending, requirement, consecutive_fails, abort_on_error, task_running,
                   task_interval, task_now, crashed, block_number, requirement_func,
                   fired, tick>>
    /\ UNCHANGED taskVars
    /\ UNCHANGED <<planVars, nodeVars, lingoVars, coreVars, ritualVars>>

NextWork == Start \/ Tick \/ NewBlock \/ Mine

SpecWork == InitWork /\ [][NextWork]_vars

(* --------------------------- RestartableTask ---------------------------- *)
\* What the looped function raises.
Failures == {"ValueError", "ConnectionError"}

\* The truth value of an argument: a Failure object is truthy.
truthy(value) == value # "False"

\* RestartableTask.handle_errors(crash_on_error, *args) (task.py:44-56): what
\* it logs, whether it raises the failure, whether it calls start(now=True).
handle_errors(crash_on_error, args, is_running) ==
    IF args # <<>>
    THEN [log |-> <<args[1]>>, raises |-> truthy(crash_on_error), restarts |-> FALSE]
    ELSE [log |-> <<>>, raises |-> FALSE, restarts |-> ~is_running]

\* A RestartableTask as __init__ leaves it (task.py:28-30).
InitTask ==
    /\ running = FALSE
    /\ last_now = FALSE
    /\ loop_calls = 0
    /\ task_log = <<>>
    /\ handled = <<>>
    /\ reraised = FALSE
    /\ TrackerIdle
    /\ PlanIdle
    /\ NodeIdle
    /\ LingoIdle
    /\ CoreIdle
    /\ RitualIdle

\* RestartableTask.start(now) (task.py:36-39): a running task is left alone;
\* handle_errors is the errback of the deferred of the looping call.
StartTask ==
    /\ ~running
    /\ running' = TRUE
    /\ last_now' \in BOOLEAN
    /\ UNCHANGED <<loop_calls, task_log, handled, reraised>>
    /\ UNCHANGED <<pending, requirement, consecutive_fails, abort_on_error, task_running,
                   task_interval, task_now, crashed, block_number, mined,
                   requirement_func, fired, tick>>
    /\ UNCHANGED <<planVars, nodeVars, lingoVars, coreVars, ritualVars>>

\* RestartableTask.stop() (task.py:41-43)
StopTask ==
    /\ running
    /\ running' = FALSE
    /\ UNCHANGED <<last_now, loop_calls, task_log, handled, reraised>>
    /\ UNCHANGED <<pending, requirement, consecutive_fails, abort_on_error, task_running,
                   task_interval, task_now, crashed, block_number, mined,
                   requirement_func, fired, tick>>
    /\ UNCHANGED <<planVars, nodeVars, lingoVars, coreVars, ritualVars>>

\* The looping call calls the looped function, which returns.
TaskReturns ==
    /\ running
    /\ loop_calls < MaxCalls
    /\ loop_calls' = loop_calls + 1
    /\ UNCHANGED <<running, last_now, task_log, handled, reraised>>
    /\ UNCHANGED <<pending, requirement, consecutive_fails, abort_on_error, task_running,
                   task_interval, task_now, crashed, block_number, mined,
                   requirement_func, fired, tick>>
    /\ UNCHANGED <<planVars, nodeVars, lingoVars, coreVars, ritualVars>>

\* The looped function raises: the looping call stops and fires the errback
\* of its deferred with the Failure as the one positional argument
\* (task.py:38-39), which handle_errors binds to crash_on_error, leaving args
\* empty.  A restart is self.start(now=True) (task.py:53-56).
TaskRaises ==
    /\ running
    /\ loop_calls < MaxCalls
    /\ loop_calls' = loop_calls + 1
    /\ \E failure \in Failures :
          LET outcome == handle_errors(failure, <<>>, FALSE)
          IN  /\ handled' = Append(handled, failure)
              /\ task_log' = task_log \o outcome.log
              /\ reraised' = (reraised \/ outcome.raises)
              /\ running' = outcome.restarts
              /\ last_now' = IF outcome.restarts THEN TRUE ELSE last_now
    /\ UNCHANGED <<pending, requirement, consecutive_fails, abort_on_error, task_running,
                   task_interval, task_now, crashed, block_number, mined,
                   requirement_func, fired, tick>>
    /\ UNCHANGED <<planVars, nodeVars, lingoVars, coreVars, ritualVars>>

NextTask == StartTask \/ StopTask \/ TaskReturns \/ TaskRaises

SpecTask == InitTask /\ [][NextTask]_vars

(* ----------------- ritual engine and threshold decryption --------------- *)
\* The engine (Ritualist), the tracker that feeds it and the coordinator agent
\* are not among the sources; this part follows the written specification of
\* the engine.  One ritual id is modelled: operations on distinct ids are
\* independent.
Operators == 1..NumOperators

\* The retry limit of a reverted post: "up to N=3 times".
RETRY_LIMIT == 3

EventKinds == {"StartRitual", "StartAggregationRound"}

EmptyInbox == [k \in EventKinds |-> 0]

IdleEngine == [inbox |-> EmptyInbox, round1 |-> 0, round2 |-> 0, attempts |-> 0,
               abandoned |-> FALSE]

NothingPosted == [transcript |-> 0, aggregation |-> 0]

InboxSize(e) == e.inbox["StartRitual"] + e.inbox["StartAggregationRound"]

InFlight(e) == e.round1 + e.round2

\* The engine with nothing serializing the operations on one ritual id.
lock_free_unserialized(e) == InFlight(e) < MaxInFlight

\* "Per-ritual-id operations are serialized (a per-id lock or actor)": an
\* event is taken up only when no handler of this engine is running.
lock_free(e) == InFlight(e) = 0

\* Round 1 preconditions: coordinator status == AWAITING_TRANSCRIPTS, this node
\* is in ritual.nodes, this node has NOT yet posted a transcript.
round1_preconditions(n) ==
    /\ ritual_status = "AWAITING_TRANSCRIPTS"
    /\ n \in ritual_nodes
    /\ ~transcripts[n]

\* Round 2 preconditions: status == AWAITING_AGGREGATIONS, and the pre-check
\* that makes a repeated StartAggregationRound a no-op; the round fails with
\* MissingTranscripts if any node's slot is empty.
round2_preconditions(n) ==
    /\ ritual_status = "AWAITING_AGGREGATIONS"
    /\ n \in ritual_nodes
    /\ ~aggregations[n]
    /\ \A m \in ritual_nodes : transcripts[m]

preconditions(kind, n) ==
    IF kind = "StartRitual" THEN round1_preconditions(n) ELSE round2_preconditions(n)

\* The coordinator moves on when the last slot of a round is filled; the status
\* progresses monotonically.
next_status(status, t, a) ==
    IF status = "AWAITING_TRANSCRIPTS" /\ \A m \in ritual_nodes : t[m]
    THEN "AWAITING_AGGREGATIONS"
    ELSE IF status = "AWAITING_AGGREGATIONS" /\ \A m \in ritual_nodes : a[m]
    THEN "FINALIZED"
    ELSE status

\* The condition lists a decryption request carries: accepted by ConditionLingo
\* and evaluated by ConditionLingo.eval.
RequestLingos == {<<"True">>, <<"False">>, <<"True", "and", "False">>, <<"RequiredInput">>}

\* Decryption share derivation on request: precondition status == FINALIZED;
\* the attached ConditionLingo is evaluated and a Failed is rejected with
\* ConditionsNotSatisfied; an exception of the evaluation ends the request;
\* otherwise the share is derived.
derive_decryption_share(status, lingo) ==
    IF status # "FINALIZED"
    THEN [share |-> FALSE, error |-> "RitualNotFinalized"]
    ELSE IF eval(lingo).outcome = "Failed"
    THEN [share |-> FALSE, error |-> "ConditionsNotSatisfied"]
    ELSE IF eval(lingo).outcome # "True"
    THEN [share |-> FALSE, error |-> eval(lingo).outcome]
    ELSE [share |-> TRUE, error |-> "no"]

\* The callers of threshold_decrypt.
Bobs == {"Bob", "ThisBobAlwaysDecrypts", "ThisBobAlwaysFails"}

\* threshold_decrypt with every caller held to the operators' answer.
threshold_decrypt_lawful(bob, status, lingo) ==
    LET answer == derive_decryption_share(status, lingo)
    IN  [shares |-> answer.share, plaintext |-> answer.share, error |-> answer.error]

\* bob.threshold_decrypt: Bob asks the operators of the ritual for their
\* shares and decrypts with them; ThisBobAlwaysDecrypts gives the plaintext for
\* any ritual id and a condition that is never true, contacting no operator;
\* ThisBobAlwaysFails raises NotEnoughUrsulas.
threshold_decrypt(bob, status, lingo) ==
    IF bob = "ThisBobAlwaysDecrypts"
    THEN [shares |-> FALSE, plaintext |-> TRUE, error |-> "no"]
    ELSE IF bob = "ThisBobAlwaysFails"
    THEN [shares |-> FALSE, plaintext |-> FALSE, error |-> "NotEnoughUrsulas"]
    ELSE LET answer == derive_decryption_share(status, lingo)
         IN  [shares |-> answer.share, plaintext |-> answer.share, error |-> answer.error]

\* A ritual among any operators, not yet initiated.
InitRitual ==
    /\ ritual_nodes \in SUBSET Operators \ {{}}
    /\ ritual_status = "NON_INITIATED"
    /\ transcripts = [n \in Operators |-> FALSE]
    /\ aggregations = [n \in Operators |-> FALSE]
    /\ engine = [n \in Operators |-> IdleEngine]
    /\ decryption = NoDecryption
    /\ posted = [n \in Operators |-> NothingPosted]
    /\ ritual_event = NoEvent
    /\ PlanIdle
    /\ NodeIdle
    /\ LingoIdle
    /\ CoreIdle
    /\ WorkIdle

\* The coordinator initiates the ritual.
InitiateRitual ==
    /\ ritual_status = "NON_INITIATED"
    /\ ritual_status' = "AWAITING_TRANSCRIPTS"
    /\ UNCHANGED <<ritual_nodes, transcripts, aggregations, engine, decryption, posted,
                   ritual_event>>
    /\ UNCHANGED <<planVars, nodeVars, lingoVars, coreVars, workVars>>

\* The coordinator times the ritual out.
Timeout ==
    /\ ritual_status \in {"AWAITING_TRANSCRIPTS", "AWAITING_AGGREGATIONS"}
    /\ ritual_status' = "TIMEOUT"
    /\ UNCHANGED <<ritual_nodes, transcripts, aggregations, engine, decryption, posted,
                   ritual_event>>
    /\ UNCHANGED <<planVars, nodeVars, lingoVars, coreVars, workVars>>

\* The tracker delivers StartRitual or StartAggregationRound to an engine, in
\* any order and any number of times.
Deliver ==
    /\ \E n \in Operators, kind \in EventKinds :
          /\ InboxSize(engine[n]) < MaxInbox
          /\ engine' = [engine EXCEPT ![n].inbox[kind] = @ + 1]
    /\ UNCHANGED <<ritual_nodes, ritual_status, transcripts, aggregations, decryption,
                   posted, ritual_event>>
    /\ UNCHANGED <<planVars, nodeVars, lingoVars, coreVars, workVars>>

\* An engine takes up a delivered event: it checks the preconditions of the
\* round and, when they hold, starts the round.
Handle ==
    /\ \E n \in Operators, kind \in EventKinds :
          /\ engine[n].inbox[kind] > 0
          /\ lock_free(engine[n])
          /\ LET start == preconditions(kind, n) /\ ~engine[n].abandoned
                 taken == [engine[n] EXCEPT !.inbox[kind] = @ - 1]
             IN  /\ engine' = [engine EXCEPT ![n] =
                        IF ~start THEN taken
                        ELSE IF kind = "StartRitual"
                        THEN [taken EXCEPT !.round1 = @ + 1, !.attempts = 0]
                        ELSE [taken EXCEPT !.round2 = @ + 1, !.attempts = 0]]
                 /\ ritual_event' = [kind |-> kind, node |-> n, started |-> start,
                                     already_posted |->
                                        IF kind = "StartRitual" THEN transcripts[n]
                                        ELSE aggregations[n]]
    /\ UNCHANGED <<ritual_nodes, ritual_status, transcripts, aggregations, decryption,
                   posted>>
    /\ UNCHANGED <<planVars, nodeVars, lingoVars, coreVars, workVars>>

\* A reverted post: the engine records the error and retries on the next tick,
\* up to RETRY_LIMIT times; exceeding it abandons the ritual.
reverted(e, round) ==
    IF e.attempts < RETRY_LIMIT
    THEN [e EXCEPT !.attempts = @ + 1]
    ELSE [e EXCEPT ![round] = @ - 1, !.abandoned = TRUE]

\* Round 1: generate the transcript, store it, post it to the coordinator.
PostTranscript ==
    /\ \E n \in Operators, reverts \in BOOLEAN :
          /\ engine[n].round1 > 0
          /\ IF reverts
             THEN /\ engine' = [engine EXCEPT ![n] = reverted(@, "round1")]
                  /\ UNCHANGED <<transcripts, posted, ritual_status>>
             ELSE /\ engine' = [engine EXCEPT ![n].round1 = @ - 1]
                  /\ transcripts' = [transcripts EXCEPT ![n] = TRUE]
                  /\ posted' = [posted EXCEPT ![n].transcript = @ + 1]
                  /\ ritual_status' = next_status(ritual_status, transcripts', aggregations)
    /\ UNCHANGED <<ritual_nodes, aggregations, decryption, ritual_event>>
    /\ UNCHANGED <<planVars, nodeVars, lingoVars, coreVars, workVars>>

\* Round 2: fetch the transcripts, aggregate, store, post the aggregation.
PostAggregation ==
    /\ \E n \in Operators, reverts \in BOOLEAN :
          /\ engine[n].round2 > 0
          /\ IF reverts
             THEN /\ engine' = [engine EXCEPT ![n] = reverted(@, "round2")]
                  /\ UNCHANGED <<aggregations, posted, ritual_status>>
             ELSE /\ engine' = [engine EXCEPT ![n].round2 = @ - 1]
                  /\ aggregations' = [aggregations EXCEPT ![n] = TRUE]
                  /\ posted' = [posted EXCEPT ![n].aggregation = @ + 1]
                  /\ ritual_status' = next_status(ritual_status, transcripts, aggregations')
    /\ UNCHANGED <<ritual_nodes, transcripts, decryption, ritual_event>>
    /\ UNCHANGED <<planVars, nodeVars, lingoVars, coreVars, workVars>>

\* bob.threshold_decrypt(...) for a ciphertext encrypted with the lingo.
ThresholdDecrypt ==
    /\ \E bob \in Bobs, lingo \in RequestLingos :
          decryption' = [bob |-> bob, lingo |-> lingo, status |-> ritual_status,
                         outcome |-> threshold_decrypt(bob, ritual_status, lingo)]
    /\ UNCHANGED <<ritual_nodes, ritual_status, transcripts, aggregations, engine, posted,
                   ritual_event>>
    /\ UNCHANGED <<planVars, nodeVars, lingoVars, coreVars, workVars>>

NextRitual ==
    \/ InitiateRitual
    \/ Timeout
    \/ Deliver
    \/ Handle
    \/ PostTranscript
    \/ PostAggregation
    \/ ThresholdDecrypt

SpecRitual == InitRitual /\ [][NextRitual]_vars

(* ------------------- RetrievalClient.retrieve_cfrags -------------------- *)
\* The state after RetrievalPlan(treasure_map, retrieval_kits) was built
\* (retrieval.py:307-309).  The treasure map's destinations are 1..n (the
\* addresses are interchangeable), its threshold is at most its shares; the kits'
\* queried addresses and the known nodes are any sets of addresses.
InitPlan ==
    /\ destinations \in {1..n : n \in 1..NumUrsulas}
    /\ threshold \in 1..Cardinality(destinations)
    /\ kits \in {ks \in RetrievalKits : ValidKits(ks)}
    /\ known_nodes \in SUBSET Addresses
    /\ capsules = InitCapsules(kits)
    /\ results = [c \in Range(InitCapsules(kits)) |-> EmptyDict]
    /\ errors = [c \in Range(InitCapsules(kits)) |-> EmptyDict]
    /\ queried_addresses = InitQueried(kits)
    /\ processed_capsules = InitProcessed(kits)
    /\ ursulas_pick_order \in PickOrders(destinations, InitQueried(kits))
    /\ pc = "loop"
    /\ work_orders = <<>>
    /\ requests = <<>>
    /\ NodeIdle
    /\ LingoIdle
    /\ CoreIdle
    /\ WorkIdle
    /\ RitualIdle

\* The work order of this iteration, with the plan state it was issued in.
Issued(wo) ==
    [ursula_address |-> wo.ursula_address, capsules |-> wo.capsules,
     collected |-> [c \in Range(wo.capsules) |-> Cardinality(DOMAIN results[c])]]

\* The positions of the request's capsules whose cfrag in the answer is a
\* verifiable one: none when there is no response or its signature is bad.
Valid(answer) ==
    IF answer.kind = "response" /\ answer.signature_ok
    THEN {i \in DOMAIN answer.cfrags_ok : answer.cfrags_ok[i]}
    ELSE {}

\* The reencryption request sent for a work order, with what came of it.
Sent(wo, answer) ==
    [ursula_address |-> wo.ursula_address, capsules |-> wo.capsules,
     outcome |-> RequestOutcome(answer), valid |-> Valid(answer)]

\* while not retrieval_plan.is_complete(): ... return retrieval_plan.results()
Return ==
    /\ pc = "loop"
    /\ is_complete
    /\ pc' = "done"
    /\ UNCHANGED <<nodeVars, lingoVars, coreVars, workVars, ritualVars>>
    /\ UNCHANGED <<destinations, threshold, kits, known_nodes, capsules, results, errors,
                   queried_addresses, processed_capsules, ursulas_pick_order,
                   work_orders, requests>>

\* get_work_order finds no Ursula with packets: RuntimeError("No Ursulas left")
\* leaves retrieve_cfrags (retrieval.py:124, 315).
NoUrsulasLeft ==
    /\ pc = "loop"
    /\ ~is_complete
    /\ get_work_order(ursulas_pick_order).raised
    /\ pc' = "raised"
    /\ ursulas_pick_order' = <<>>
    /\ UNCHANGED <<nodeVars, lingoVars, coreVars, workVars, ritualVars>>
    /\ UNCHANGED <<destinations, threshold, kits, known_nodes, capsules, results, errors,
                   queried_addresses, processed_capsules, work_orders, requests>>

\* The Ursula of the work order is not a known node: continue (retrieval.py:320).
SkipUnknown ==
    /\ pc = "loop"
    /\ ~is_complete
    /\ LET wo == get_work_order(ursulas_pick_order) IN
        /\ ~wo.raised
        /\ wo.ursula_address \notin known_nodes
        /\ ursulas_pick_order' = wo.pick_order
        /\ work_orders' = Append(work_orders, Issued(wo))
    /\ UNCHANGED <<nodeVars, lingoVars, coreVars, workVars, ritualVars>>
    /\ UNCHANGED <<destinations, threshold, kits, known_nodes, capsules, results, errors,
                   queried_addresses, processed_capsules, pc, requests>>

\* The Ursula is known but holds no kfrag in the treasure map (an address that
\* only a kit's queried set names): treasure_map.destinations[...] raises
\* KeyError before a request is made (retrieval.py:339).
NoKFrag ==
    /\ pc = "loop"
    /\ ~is_complete
    /\ LET wo == get_work_order(ursulas_pick_order) IN
        /\ ~wo.raised
        /\ wo.ursula_address \in known_nodes
        /\ wo.ursula_address \notin destinations
        /\ ursulas_pick_order' = wo.pick_order
        /\ work_orders' = Append(work_orders, Issued(wo))
    /\ pc' = "raised"
    /\ UNCHANGED <<nodeVars, lingoVars, coreVars, workVars, ritualVars>>
    /\ UNCHANGED <<destinations, threshold, kits, known_nodes, capsules, results, errors,
                   queried_addresses, processed_capsules, requests>>

\* One request is sent and _request_reencryption raises: update_errors, continue
\* (retrieval.py:346-360).
RequestFailed ==
    /\ pc = "loop"
    /\ ~is_complete
    /\ LET wo == get_work_order(ursulas_pick_order) IN
        /\ ~wo.raised
        /\ wo.ursula_address \in known_nodes
        /\ wo.ursula_address \in destinations
        /\ \E answer \in Answers(Len(wo.capsules)) :
            /\ RequestOutcome(answer) # "ok"
            /\ errors' = update_errors(wo, wo.ursula_address, RequestOutcome(answer))
            /\ requests' = Append(requests, Sent(wo, answer))
        /\ ursulas_pick_order' = wo.pick_order
        /\ work_orders' = Append(work_orders, Issued(wo))
    /\ UNCHANGED <<nodeVars, lingoVars, coreVars, workVars, ritualVars>>
    /\ UNCHANGED <<destinations, threshold, kits, known_nodes, capsules, results,
                   queried_addresses, processed_capsules, pc>>

\* One request is sent and answered with verified cfrags: retrieval_plan.update
\* (retrieval.py:346-362).
RequestSucceeded ==
    /\ pc = "loop"
    /\ ~is_complete
    /\ LET wo == get_work_order(ursulas_pick_order) IN
        /\ ~wo.raised
        /\ wo.ursula_address \in known_nodes
        /\ wo.ursula_address \in destinations
        /\ \E answer \in Answers(Len(wo.capsules)) :
            /\ RequestOutcome(answer) = "ok"
            /\ LET cfrags == CfragDict(wo, answer) IN
                /\ queried_addresses' = UpdateQueried(wo, cfrags)
                /\ processed_capsules' = UpdateProcessed(wo, cfrags)
                /\ results' = UpdateResults(wo, cfrags)
            /\ requests' = Append(requests, Sent(wo, answer))
        /\ ursulas_pick_order' = wo.pick_order
        /\ work_orders' = Append(work_orders, Issued(wo))
    /\ UNCHANGED <<nodeVars, lingoVars, coreVars, workVars, ritualVars>>
    /\ UNCHANGED <<destinations, threshold, kits, known_nodes, capsules, errors, pc>>

NextPlan ==
    \/ Return
    \/ NoUrsulasLeft
    \/ SkipUnknown
    \/ NoKFrag
    \/ RequestFailed
    \/ RequestSucceeded

SpecPlan == InitPlan /\ [][NextPlan]_vars

\* retrieve_cfrags is a sequential loop: while it has a next step it takes it.
SpecPlanFair == SpecPlan /\ WF_vars(NextPlan)

(* ======================= claims: retrieval planner ====================== *)
HandedOut == [i \in DOMAIN work_orders |-> work_orders[i].ursula_address]
Contacted == [i \in DOMAIN requests |-> requests[i].ursula_address]
NoRepeats(s) == \A i, j \in DOMAIN s : i # j => s[i] # s[j]
Collected(c) == DOMAIN results[c]
PlanCapsules == DOMAIN results
Seeded == \E i \in DOMAIN kits : kits[i].queried_addresses # {}

\* C1: in one retrieve_cfrags invocation get_work_order hands out no operator
\* address twice, no operator is sent two reencryption requests, and at most
\* |destinations| requests are sent.
C1_OperatorContactedOnce ==
    /\ NoRepeats(HandedOut)
    /\ NoRepeats(Contacted)
    /\ Len(requests) <= Cardinality(destinations)

\* C1 witness: a plan with seeded kits that sent a request to every one of
\* three destinations.
C1_Witness ==
    /\ Seeded
    /\ Cardinality(destinations) = 3
    /\ Len(requests) = 3

\* C2: when retrieve_cfrags returns every capsule holds at most `threshold`
\* cfrags, and no work order ever carried a capsule that already had
\* `threshold` cfrags.
C2_AtMostThreshold ==
    /\ pc = "done" => \A c \in PlanCapsules : Cardinality(Collected(c)) <= threshold
    /\ \A i \in DOMAIN work_orders :
         \A c \in Range(work_orders[i].capsules) : work_orders[i].collected[c] < threshold

\* C2 witness: the planner stopped at the threshold (2 cfrags for each of two
\* capsules) with an operator still left in the pick order.
C2_Witness ==
    /\ pc = "done"
    /\ threshold = 2
    /\ Cardinality(PlanCapsules) = 2
    /\ \A c \in PlanCapsules : Cardinality(Collected(c)) = threshold
    /\ ursulas_pick_order # <<>>

\* C3: every cfrag in results comes from a response whose signature and
\* cfrags verified.
C3_OnlyVerifiedCfrags ==
    \A c \in PlanCapsules : \A a \in Collected(c) :
        /\ results[c][a].signature_ok
        /\ results[c][a].cfrag_ok
        /\ results[c][a].capsule = c
        /\ results[c][a].ursula = a

\* C3 witness: one operator's response failed verification and was recorded as
\* an error, another's cfrag was stored.
C3_Witness ==
    \E c \in PlanCapsules :
        /\ Collected(c) # {}
        /\ \E a \in DOMAIN errors[c] : errors[c][a] \in {"VerificationError", "InvalidSignature"}

AllKnown == destinations \subseteq known_nodes
FailedOperators == {requests[i].ursula_address : i \in {j \in DOMAIN requests : requests[j].outcome # "ok"}}
ExactlyThreshold == \A c \in PlanCapsules : Cardinality(Collected(c)) = threshold

\* C4: when every destination is known, no kit carries queried addresses and
\* at least `threshold` destinations do not fail, retrieve_cfrags terminates
\* (returns) with exactly `threshold` cfrags for every capsule.
C4_ThresholdReached ==
    (AllKnown /\ ~Seeded) =>
        <>(/\ pc = "done"
           /\ Cardinality(destinations \ FailedOperators) >= threshold => ExactlyThreshold)

\* C4 witness: threshold 2 of 3 shares, one operator down, two capsules, and
\* the call returned with two cfrags for each.
C4_Witness ==
    /\ AllKnown /\ ~Seeded
    /\ pc = "done"
    /\ threshold = 2 /\ Cardinality(destinations) = 3
    /\ Cardinality(PlanCapsules) = 2
    /\ \E i \in DOMAIN requests : requests[i].outcome = "RuntimeError"
    /\ ExactlyThreshold

AllRequestsFailed == \A i \in DOMAIN requests : requests[i].outcome # "ok"
RequestedFrom(c) == {requests[i].ursula_address :
                        i \in {j \in DOMAIN requests : c \in Range(requests[j].capsules)}}

\* C5 (as claimed): if every operator contacted returned an error, then on
\* return every capsule has empty results and at least one error entry.
C5_AllErrors_Claimed ==
    (pc = "done" /\ requests # <<>> /\ AllRequestsFailed) =>
        \A c \in PlanCapsules : Collected(c) = {} /\ DOMAIN errors[c] # {}

\* C5 (amended): if every operator contacted returned an error, then on return
\* every capsule has empty results and an error entry for every operator that
\* was sent a request carrying it; that is at least one entry for every
\* capsule when no kit is seeded and some destination is a known node.
C5_AllErrors ==
    (pc = "done" /\ AllRequestsFailed) =>
        \A c \in PlanCapsules :
            /\ Collected(c) = {}
            /\ RequestedFrom(c) \subseteq DOMAIN errors[c]
            /\ (~Seeded /\ destinations \cap known_nodes # {}) => DOMAIN errors[c] # {}

\* C5 witness: two capsules, three operators contacted, all failed, returned.
C5_Witness ==
    /\ pc = "done"
    /\ Cardinality(PlanCapsules) = 2
    /\ Len(requests) = 3
    /\ AllRequestsFailed
    /\ \A c \in PlanCapsules : Cardinality(DOMAIN errors[c]) = 3

\* C6 (as claimed): is_complete() holds exactly when the pick order is empty or
\* every capsule has at least `threshold` cfrags collected in the plan.
C6_IsComplete_Claimed ==
    is_complete <=>
        \/ ursulas_pick_order = <<>>
        \/ \A c \in PlanCapsules : Cardinality(Collected(c)) >= threshold

\* C6 (amended): is_complete() holds exactly when the pick order is empty or,
\* for every capsule, the addresses its kit lists as queried together with the
\* operators whose cfrags the plan collected number at least `threshold`.
C6_IsComplete ==
    is_complete <=>
        \/ ursulas_pick_order = <<>>
        \/ \A c \in PlanCapsules :
              Cardinality(InitQueried(kits)[c] \cup Collected(c)) >= threshold

\* C6 witness: the plan is complete with operators left to pick and a capsule
\* that collected a cfrag but fewer than `threshold` of them.
C6_Witness ==
    /\ pc = "loop"
    /\ is_complete
    /\ ursulas_pick_order # <<>>
    /\ \E c \in PlanCapsules : Collected(c) # {} /\ Cardinality(Collected(c)) < threshold

(* ====================== claims: /reencrypt handler ====================== *)
NothingDone ==
    /\ response.evaluated = <<>>
    /\ response.cfrags = <<>>
    /\ ~response.stored

\* C7: a request whose HRAC is revoked is answered 401 before any kfrag
\* decryption; no condition is evaluated, nothing is reencrypted and no audit
\* entry is written.
C7_RevokedRejected ==
    (served /\ request.hrac \in revoked_policies) =>
        /\ response.status = UNAUTHORIZED
        /\ ~response.decrypted
        /\ NothingDone

\* What does hold of revoked policies: a request that carries a conditions
\* payload (so that from_bytes returns) and a revoked HRAC is answered 401 with
\* nothing decrypted, evaluated, reencrypted or stored.
RevokedRejectedWhenParsed ==
    (served /\ request.has_conditions /\ request.hrac \in revoked_policies) =>
        /\ response.status = UNAUTHORIZED
        /\ ~response.decrypted
        /\ NothingDone

\* C8: when kfrag decryption fails the handler answers 403 for
\* DecryptionFailed, 401 for InvalidSignature and 400 for any other error, and
\* then evaluates no condition and reencrypts nothing.
C8_DecryptFailures ==
    (served /\ response.decrypted /\ request.encrypted_kfrag # "ok") =>
        /\ request.encrypted_kfrag = "DecryptionFailed" => response.status = FORBIDDEN
        /\ request.encrypted_kfrag = "InvalidSignature" => response.status = UNAUTHORIZED
        /\ request.encrypted_kfrag = "Exception" => response.status = BAD_REQUEST
        /\ response.evaluated = <<>>
        /\ response.cfrags = <<>>

\* C8 witness: a request carrying conditions whose kfrag has an invalid
\* signature was answered 401.
C8_Witness ==
    /\ served
    /\ response.decrypted
    /\ request.encrypted_kfrag = "InvalidSignature"
    /\ \E i \in DOMAIN request.lingos : request.lingos[i] # "None"
    /\ response.status = UNAUTHORIZED

\* C9: a request whose signature does not verify under bob_verifying_key is
\* rejected: no condition is evaluated for it and no cfrag is produced.
C9_UnsignedRejected ==
    (served /\ ~request.bob_signature_ok) =>
        /\ response.status # OK
        /\ response.evaluated = <<>>
        /\ response.cfrags = <<>>

\* The packets of the handler: positions of zip(lingos, capsules).
PacketPositions == 1..Min(Len(request.lingos), Len(request.capsules))
Raising(i) == request.lingos[i] \in {"RequiredInput", "Failed", "Exception"}
ConditionsEnforced == served /\ response.decrypted /\ request.encrypted_kfrag = "ok"

\* C10: the non-empty conditions are evaluated per capsule in request order up
\* to and including the first one that raises; RequiredInput or Failed there
\* gives 403, any other exception 500, and then no capsule is reencrypted.
C10_ConditionFailures ==
    ConditionsEnforced =>
        /\ \A k \in DOMAIN response.evaluated :
             /\ response.evaluated[k] \in PacketPositions
             /\ request.lingos[response.evaluated[k]] # "None"
             /\ k > 1 => response.evaluated[k - 1] < response.evaluated[k]
             /\ k < Len(response.evaluated) => ~Raising(response.evaluated[k])
        /\ \A i \in PacketPositions :
             (request.lingos[i] # "None" /\ \A j \in 1..(i - 1) : ~Raising(j))
                 => i \in Range(response.evaluated)
        /\ \A i \in PacketPositions :
             (Raising(i) /\ \A j \in 1..(i - 1) : ~Raising(j)) =>
                /\ request.lingos[i] \in {"RequiredInput", "Failed"} => response.status = FORBIDDEN
                /\ request.lingos[i] = "Exception" => response.status = INTERNAL_SERVER_ERROR
                /\ response.evaluated[Len(response.evaluated)] = i
                /\ response.cfrags = <<>>
                /\ ~response.stored

\* C10 witness: the first capsule's condition passed, the second's failed; the
\* answer was 403 and nothing was reencrypted.
C10_Witness ==
    /\ ConditionsEnforced
    /\ Len(request.capsules) = 2
    /\ request.lingos = <<"True", "Failed">>
    /\ response.evaluated = <<1, 2>>
    /\ response.status = FORBIDDEN
    /\ response.cfrags = <<>>

\* The request passed every check of the handler: it parsed, its policy is not
\* revoked, its kfrag decrypted and no condition raised.
Reencrypted ==
    /\ ConditionsEnforced
    /\ \A i \in PacketPositions : ~Raising(i)

\* C11: when the audit record of a reencryption cannot be written
\* the requester still gets the 200 response with the cfrags of the capsules.
C11_AuditBestEffort ==
    (Reencrypted /\ ~datastore_up) =>
        /\ response.status = OK
        /\ response.cfrags = [i \in PacketPositions |-> request.capsules[i]]

\* What does hold when the audit record cannot be written: the error of
\* datastore.describe leaves the handler, the answer is a 500 without cfrags.
AuditFailureIsError ==
    (Reencrypted /\ ~datastore_up) =>
        /\ response.status = INTERNAL_SERVER_ERROR
        /\ response.cfrags = <<>>
        /\ ~response.stored

\* C12: the audit log gains an entry (exactly one) only in a step that answers
\* 200 with the cfrags; a step that rejects the request leaves the audit log as
\* it was.
C12_AuditOnlyOnSuccess ==
    [][/\ datastore' # datastore =>
            /\ response'.status = OK
            /\ response'.cfrags = [i \in 1..Min(Len(request'.lingos), Len(request'.capsules))
                                      |-> request'.capsules[i]]
            /\ datastore' = Append(datastore, ReencryptionRequestModel)
       /\ (served' /\ response'.status # OK) => datastore' = datastore]_vars

\* C12 witness: a request whose kfrag is garbled was answered 400 and the audit
\* log still holds only the record it held before.
C12_Witness ==
    /\ served
    /\ request.encrypted_kfrag = "Exception"
    /\ response.status = BAD_REQUEST
    /\ ~response.stored
    /\ datastore = <<ReencryptionRequestModel>>

(* ------------------------ claims: ConditionLingo ------------------------ *)
\* eval ran on the list and no condition raised.
Decided == lingo_pc = "evaluated" /\ eval_result.outcome \in {"True", "Failed"}

\* The list read as a flat alternation folded from the left, one operator at a
\* time: ((c1 op1 c2) op2 c3) ...
RECURSIVE left_fold(_, _)
left_fold(tokens, i) ==
    IF i = 1 THEN tokens[1] = "True"
    ELSE IF tokens[i - 1] = "and"
         THEN left_fold(tokens, i - 2) /\ tokens[i] = "True"
         ELSE left_fold(tokens, i - 2) \/ tokens[i] = "True"

\* C13: for every condition list and every truth value of its leaves, eval
\* decides the list as the left-to-right fold with no precedence between `and`
\* and `or`.
C13_LeftToRightFold ==
    Decided => (eval_result.outcome = "True" <=> left_fold(conditions, Len(conditions)))

\* The positions i..j are a maximal run of conditions joined by `and`.
AndRun(i, j) ==
    /\ i % 2 = 1 /\ j % 2 = 1 /\ i <= j
    /\ \A k \in i..j : k % 2 = 0 => conditions[k] = "and"
    /\ i > 1 => conditions[i - 1] = "or"
    /\ j < Len(conditions) => conditions[j + 1] = "or"

\* What does hold of eval: `and` binds tighter than `or`, the list is true
\* exactly when one of its `and` runs holds only true leaves.
EvalIsDisjunctionOfAndRuns ==
    Decided =>
        (eval_result.outcome = "True" <=>
            \E i, j \in DOMAIN conditions :
                AndRun(i, j) /\ \A k \in i..j : k % 2 = 1 => conditions[k] = "True")

\* Left-to-right evaluation that skips a leaf once the value so far decides
\* `acc op leaf`: the verify calls it makes and whether one of them raises.
RECURSIVE short_circuit(_, _, _, _)
short_circuit(lingo, i, acc, calls) ==
    IF i > Len(lingo)
    THEN [raised |-> "no", verified |-> calls]
    ELSE IF (i > 1 /\ lingo[i - 1] = "or" /\ acc) \/ (i > 1 /\ lingo[i - 1] = "and" /\ ~acc)
    THEN short_circuit(lingo, i + 2, acc, calls)
    ELSE IF lingo[i] \in {"True", "False"}
    THEN short_circuit(lingo, i + 2, lingo[i] = "True", Append(calls, i))
    ELSE [raised |-> lingo[i], verified |-> Append(calls, i)]

\* C14: eval verifies the leaves left to right and stops verifying once the
\* leaves verified so far decide the result: a later leaf gets no verify call
\* and an error it would raise does not reach the caller.
C14_ShortCircuit ==
    lingo_pc = "evaluated" =>
        /\ verified = short_circuit(conditions, 1, FALSE, <<>>).verified
        /\ short_circuit(conditions, 1, FALSE, <<>>).raised = "no"
               => eval_result.outcome \in {"True", "Failed"}

\* What does hold of eval: every condition of the list up to and including the
\* first that raises is verified, in list order.
EveryLeafVerified ==
    lingo_pc = "evaluated" =>
        /\ \A k \in DOMAIN verified : k > 1 => verified[k - 1] < verified[k]
        /\ \A i \in DOMAIN conditions :
             (i % 2 = 1 /\ \A j \in 1..(i - 1) : conditions[j] \notin {"RequiredInput", "Error"})
                 <=> i \in Range(verified)

\* The first leaf whose verify returned False.
FirstFailingLeaf ==
    CHOOSE i \in DOMAIN conditions :
        /\ conditions[i] = "False"
        /\ \A j \in 1..(i - 1) : conditions[j] # "False"

\* C15: eval returns True exactly when the expression is true and never returns
\* False; when the expression is false it raises Failed, and the Failed names
\* the first failing leaf.
C15_FailedNamesLeaf ==
    Decided =>
        /\ eval_result.outcome = "True" <=> or_test(conditions, 1)
        /\ eval_result.outcome = "Failed" => eval_result.args = <<FirstFailingLeaf>>

\* What does hold of eval's result: True for a true expression, a Failed
\* without arguments for a false one.
FailedIsBare ==
    Decided =>
        /\ eval_result.outcome = "True" <=> or_test(conditions, 1)
        /\ eval_result.outcome = "Failed" => eval_result.args = <<>>

\* C16: a list that the constructor or from_list accepted has odd length, a
\* condition at every even (0-based) index and an `and` or `or` at every odd
\* index.
C16_WellFormed ==
    lingo_pc \in {"accepted", "evaluated"} =>
        /\ Len(conditions) % 2 = 1
        /\ \A i \in DOMAIN conditions :
             IF (i - 1) % 2 = 0
             THEN conditions[i] \in {"True", "False", "RequiredInput", "Error"}
             ELSE conditions[i] \in {"and", "or"}

\* C16 witness: a list of three conditions joined by `and` and `or` was
\* accepted.
C16_Witness ==
    /\ lingo_pc = "accepted"
    /\ Len(conditions) = 5
    /\ conditions[2] = "and"
    /\ conditions[4] = "or"

(* ---------------------- claims: bolt-on conditions ---------------------- *)
\* C17: for MessageKit, RetrievalKit and ReencryptionRequest, decoding the
\* serialized bytes returns an object whose bytes are the same bytes, with
\* conditions present and with conditions absent.
C17_RoundTrip ==
    /\ core_pc = "decoded" => decoded.cls # "raised"
    /\ core_pc = "reserialized" => rewire = wire

\* What does hold of the round trip: a kit without conditions, and a request
\* whose lingos are not empty and serialize to bytes free of the delimiter, get
\* their bytes back.
RoundTripWhereItHolds ==
    /\ (core_pc = "reserialized" /\ kit.cls # "ReencryptionRequest" /\ kit.conditions = "None")
           => rewire = wire
    /\ (core_pc \in {"decoded", "reserialized"} /\ kit.cls = "ReencryptionRequest"
            /\ kit.conditions # <<>> /\ "lingoBC" \notin Range(kit.conditions))
           => decoded.cls # "raised"
    /\ (core_pc = "reserialized" /\ kit.cls = "ReencryptionRequest") => rewire = wire

\* A kit that carries a condition loses it in from_bytes: its bytes come back
\* without the delimiter and the payload.
KitConditionsDropped ==
    (core_pc = "reserialized" /\ kit.cls # "ReencryptionRequest" /\ kit.conditions # "None")
        => (decoded.conditions = "None" /\ rewire = kit.core)

(* ------------------------- claims: WorkTracker -------------------------- *)
Ticked == tick.count > 0

\* The tracked (non-marker) entries of a pending map.
Tracked(pend) == {k \in DOMAIN pend : pend[k] # UNTRACKED_PENDING_TRANSACTION}

\* C18: on every tick, also after a crash and restart, a commitment is fired
\* only if nothing is pending after reconciliation and the requirement callable
\* given to start() returns true; the one txhash fired is recorded under the
\* block number read at the start of the tick.
C18_FireOnlyWhenRequired ==
    (Ticked /\ tick.fired # 0) =>
        /\ DOMAIN tick.reconciled = {}
        /\ requirement_func = "callable" => tick.required = "True"
        /\ DOMAIN pending = {tick.block}
        /\ pending[tick.block] = tick.fired

\* What does hold of firing: nothing was pending, the txhash is recorded under
\* the tick's block number, and the requirement was met if the tracker never
\* crashed before.
FireOnlyWhenRequiredUntilCrash ==
    (Ticked /\ tick.fired # 0) =>
        /\ DOMAIN tick.reconciled = {}
        /\ (requirement_func = "callable" /\ consecutive_fails = 0) => tick.required = "True"
        /\ DOMAIN pending = {tick.block}
        /\ pending[tick.block] = tick.fired

\* A tracked entry of the tick that had no receipt and had waited the max
\* confirmation time.
Stuck(k) ==
    /\ k \in Tracked(tick.before)
    /\ tick.before[k] \notin tick.receipts
    /\ tick.block - k >= MaxConfirmationBlocks

\* C19: a tick removes every pending transaction that has a receipt, and
\* replaces a pending transaction still unmined after the max confirmation
\* time: a new commitment is fired and tracked under the current block number
\* and the stuck entry is removed.
C19_MinedDroppedStuckReplaced ==
    Ticked =>
        /\ \A k \in Tracked(tick.before) :
             tick.before[k] \in tick.receipts =>
                 (k \notin DOMAIN pending \/ pending[k] # tick.before[k])
        /\ \A k \in DOMAIN tick.before :
             Stuck(k) =>
                /\ k \notin DOMAIN pending
                /\ tick.block \in DOMAIN pending
                /\ tick.fired # 0
                /\ pending[tick.block] = tick.fired

\* What does hold of a tick: mined entries are removed; a tick that finds an
\* unmined entry or sets the marker raises AttributeError, fires nothing and
\* keeps the entry.
MinedDroppedStuckKept ==
    Ticked =>
        /\ \A k \in Tracked(tick.before) :
             tick.before[k] \in tick.receipts =>
                 (k \notin DOMAIN pending \/ pending[k] # tick.before[k])
        /\ DOMAIN tick.reconciled # {} =>
                /\ tick.raised = "AttributeError"
                /\ tick.fired = 0
                /\ pending = tick.reconciled

\* C20: after every tick the next sleep interval is within [60 s, 30 min], and
\* it is the 60 s floor whenever a transaction is still outstanding.
C20_IntervalBounds ==
    Ticked =>
        /\ task_interval \in 60..(30 * 60)
        /\ DOMAIN pending # {} => task_interval = 60

\* What does hold of the interval: it is within the class's own bounds, and at
\* the floor once the tracker has crashed.
IntervalWithinClassBounds ==
    Ticked =>
        /\ task_interval \in INTERVAL_FLOOR..INTERVAL_CEIL
        /\ consecutive_fails > 0 => task_interval = INTERVAL_FLOOR

\* The floor rule read with the class's own floor: it fails as well, for the
\* tick that fires a commitment sets a random interval before firing.
FloorWhileOutstanding ==
    (Ticked /\ DOMAIN pending # {}) => task_interval = INTERVAL_FLOOR

\* C21: when a tick raises, with abort_on_error the task is stopped, the
\* failure is re-raised and the task is never running again; without, the task
\* is running again, started with now=True for the first failure in a row and
\* with now=False (a wait of one interval) for the later ones.
C21_CrashHandling ==
    /\ crashed => ~task_running
    /\ (Ticked /\ tick.raised # "no") =>
          IF abort_on_error
          THEN ~task_running /\ crashed
          ELSE task_running /\ ~crashed /\ (task_now <=> tick.failures = 1)

\* What does hold of a raising tick: the same, with the failures counted by
\* _consecutive_fails, which no successful tick sets back: only the first
\* failure since the tracker was built is re-run at once.
CrashHandlingByCounter ==
    /\ crashed => ~task_running
    /\ (Ticked /\ tick.raised # "no") =>
          IF abort_on_error
          THEN ~task_running /\ crashed
          ELSE task_running /\ ~crashed /\ (task_now <=> consecutive_fails = 1)

(* ------------------------ claims: ReturnValueTest ----------------------- *)
\* The result and the value are the same value of the output's type: bytes are
\* given by their hex text or as bytes, a tuple as a list or a tuple of its
\* components.
RECURSIVE Same(_, _)
Same(result, value) ==
    IF result.t = "tuple"
    THEN /\ value.t \in {"tuple", "list"}
         /\ Len(value.items) = Len(result.items)
         /\ \A i \in DOMAIN result.items : Same(result.items[i], value.items[i])
    ELSE IF result.t = "bytes" THEN value.t \in {"bytes", "str"} /\ value.v = result.v
    ELSE value.t = result.t /\ value.v = result.v

\* The component of the call result the test is about.
Component ==
    IF return_value_json.index = NoIndex THEN call_result
    ELSE call_result.items[return_value_json.index + 1]

\* The test is one of equality.
EqualityComparator == return_value_json.comparator \in {"==", "!="}

\* C24: for a call result and a value of bool, integer, address, bytes, tuple or
\* nested tuple type the test is made and, with ==, true exactly when the result
\* (its i-th component when index i is set) equals the value, with != exactly
\* when it does not.
C24_EqualityTest ==
    /\ test_pc # "rejected"
    /\ (test_pc = "evaluated" /\ EqualityComparator) =>
          (condition_result <=>
              IF return_value_json.comparator = "==" THEN Same(Component, return_value_json.value)
              ELSE ~Same(Component, return_value_json.value))

\* What holds: a test without index whose operands are of one Python type
\* after the values were aligned (bytes with bytes, tuples with tuples) is
\* the equality of the two.
EqualityOfAlignedOperands ==
    (test_pc = "evaluated" /\ EqualityComparator /\ return_value_json.index = NoIndex
        /\ sanitize_value(call_result).t = sanitize_value(return_value_json.value).t
        /\ call_result.t # "tuple") =>
          (condition_result <=>
              IF return_value_json.comparator = "==" THEN Same(call_result, return_value_json.value)
              ELSE ~Same(call_result, return_value_json.value))

Decrypted == decryption.bob # "none"

ConditionOf(d) == eval(d.lingo).outcome

C25_WorkOrderAvailable ==
    (pc = "loop" /\ ~is_complete) => ~get_work_order(ursulas_pick_order).raised

\* The plan as __init__ left it: no work order was handed out yet.
Built == pc = "loop" /\ work_orders = <<>>

\* The addresses that appear in any kit's queried set.
KitQueried == UNION {kits[i].queried_addresses : i \in DOMAIN kits}

\* Every address of `later` comes after every address that is not in it.
Demoted(order, later) ==
    \A i, j \in DOMAIN order : (order[i] \in later /\ order[j] \notin later) => j < i

\* C26: the pick order built at construction is a permutation of the treasure
\* map's destinations (same set, no duplicates, nothing added) in which every
\* address of any kit's queried set comes after every address of none.
C26_PickOrderPermutation ==
    Built =>
        /\ Range(ursulas_pick_order) = destinations
        /\ NoRepeats(ursulas_pick_order)
        /\ Demoted(ursulas_pick_order, KitQueried)

\* What the built pick order is: without duplicates, the destinations together
\* with every address of _queried_addresses, these last.
PickOrderWithQueriedAppended ==
    Built =>
        /\ Range(ursulas_pick_order) = destinations \cup ContactLast(queried_addresses)
        /\ NoRepeats(ursulas_pick_order)
        /\ Demoted(ursulas_pick_order, ContactLast(queried_addresses))

\* The request sent in this step, when one was.
RequestSent == Len(requests') = Len(requests) + 1

\* C27: when a reencryption request fails, for whatever reason, the error is
\* recorded under the operator for every capsule of the work order, results,
\* _queried_addresses and _processed_capsules stay as they are, and the loop
\* goes on.
C27_FailureRecorded ==
    [][(RequestSent /\ requests'[Len(requests')].outcome # "ok") =>
          LET sent == requests'[Len(requests')]
          IN  /\ \A c \in Range(sent.capsules) :
                    /\ sent.ursula_address \in DOMAIN errors'[c]
                    /\ errors'[c][sent.ursula_address] = sent.outcome
              /\ \A c \in DOMAIN errors \ Range(sent.capsules) : errors'[c] = errors[c]
              /\ UNCHANGED <<results, queried_addresses, processed_capsules>>
              /\ pc' = "loop"]_vars

\* A request for two capsules failed and a later operator was asked.
C27_Witness ==
    \E i \in DOMAIN requests :
        /\ requests[i].outcome # "ok"
        /\ Cardinality(Range(requests[i].capsules)) = 2
        /\ i < Len(requests)

\* C28: when some cfrags of a response fail verification, the valid cfrags of
\* that response are still recorded in results and the operator is recorded as
\* queried for their capsules.
C28_ValidCfragsKept ==
    \A i \in DOMAIN requests :
        requests[i].outcome = "VerificationError" =>
            \A k \in requests[i].valid :
                /\ requests[i].ursula_address \in Collected(requests[i].capsules[k])
                /\ requests[i].ursula_address \in queried_addresses[requests[i].capsules[k]]

\* What holds: a response with any cfrag that does not verify is dropped whole;
\* none of its cfrags is recorded, the operator is not recorded as queried for
\* any capsule of the request, and the error is recorded for each of them.
ResponseAllOrNothing ==
    \A i \in DOMAIN requests :
        requests[i].valid # DOMAIN requests[i].capsules =>
            \A c \in Range(requests[i].capsules) :
                /\ requests[i].ursula_address \notin Collected(c)
                /\ requests[i].ursula_address \notin queried_addresses[c]
                /\ requests[i].ursula_address \in DOMAIN errors[c]

\* A response for two capsules with one good and one bad cfrag.
PartlyValidResponse ==
    \E i \in DOMAIN requests :
        /\ requests[i].outcome = "VerificationError"
        /\ Len(requests[i].capsules) = 2
        /\ Cardinality(requests[i].valid) = 1

\* C29: _processed_capsules is the exact inverse of _queried_addresses, and an
\* address is recorded for a capsule only if a kit lists it as queried for the
\* capsule or it answered for the capsule in this plan.
C29_ProcessedIsInverse ==
    /\ \A c \in PlanCapsules, a \in Addresses :
          a \in queried_addresses[c] <=> c \in processed_capsules[a]
    /\ \A c \in PlanCapsules :
          queried_addresses[c] \subseteq
              UNION {kits[i].queried_addresses : i \in {j \in DOMAIN kits : kits[j].capsule = c}}
              \cup Collected(c)

\* What holds: every address recorded as queried for a capsule has the capsule
\* among its processed ones, and the two are inverse of each other when no two
\* kits carry the same capsule.
ProcessedCoversQueried ==
    /\ \A c \in PlanCapsules, a \in Addresses :
          a \in queried_addresses[c] => c \in processed_capsules[a]
    /\ NoRepeats(capsules) =>
          \A c \in PlanCapsules, a \in Addresses :
              c \in processed_capsules[a] => a \in queried_addresses[c]

\* C30: retrieve_cfrags terminates: every iteration of its loop takes at least
\* one address off the pick order and none is put back, so there are at most
\* as many iterations as the built pick order has addresses, whatever the
\* operators answer and whether or not they are known.
C30_Terminates ==
    /\ [][/\ Len(ursulas_pick_order') <= Len(ursulas_pick_order)
          /\ Range(ursulas_pick_order') \subseteq Range(ursulas_pick_order)
          /\ Len(work_orders') > Len(work_orders) =>
                Len(ursulas_pick_order') < Len(ursulas_pick_order)
          /\ pc = "loop" =>
                (pc' = "loop" => Len(work_orders') > Len(work_orders))]_vars
    /\ [](Len(work_orders) + Len(ursulas_pick_order)
             <= Cardinality(destinations \cup KitQueried))
    /\ <>(pc # "loop")

\* The loop ran once for every address of a pick order of three and returned.
C30_Witness ==
    /\ pc = "done"
    /\ Len(work_orders) = 3
    /\ Cardinality(destinations \cup KitQueried) = 3
    /\ \E i \in DOMAIN work_orders : work_orders[i].ursula_address \notin known_nodes

(* ================= claims: /reencrypt handler, continued ================ *)
\* No condition entry of the request raises: each is null or evaluates to True.
EveryConditionPasses == \A i \in DOMAIN request.lingos : ~Raising(i)

\* The request is one the handler has no reason to refuse: its policy is not
\* revoked, its kfrag decrypts, every condition passes, the audit record can
\* be written.
Acceptable ==
    /\ served
    /\ request.hrac \notin revoked_policies
    /\ request.encrypted_kfrag = "ok"
    /\ EveryConditionPasses
    /\ datastore_up

\* C31: when every condition of a reencrypt request passes, the capsules handed
\* to reencryption are the request's capsules, each once and in request order,
\* whether the request carries fewer condition entries than capsules, as many,
\* more, or none.
C31_AllCapsulesReencrypted ==
    Acceptable =>
        /\ response.status = OK
        /\ response.cfrags = request.capsules

\* What holds: of a request that carries a conditions payload the capsules
\* reencrypted are the first min(#lingos, #capsules) ones, in request order; a
\* request without the payload is answered 500.
CapsulesZippedWithLingos ==
    Acceptable =>
        IF request.has_conditions
        THEN /\ response.status = OK
             /\ response.cfrags = [i \in PacketPositions |-> request.capsules[i]]
        ELSE /\ response.status = INTERNAL_SERVER_ERROR
             /\ response.cfrags = <<>>

(* ------------------ claims: ReturnValueTest, continued ------------------ *)
\* The value of the test is a sequence.
SequenceValue == return_value_json.value.t \in {"tuple", "list"}

\* C32: a return value test whose value is a sequence compares element-wise,
\* and == and != are the only comparators valid for sequences: with >, <, >=
\* or <= and a sequence value the test is rejected, never evaluated.
C32_SequencesByEqualityOnly ==
    /\ (SequenceValue /\ ~EqualityComparator) => test_pc \in {"given", "rejected"}
    /\ (SequenceValue /\ EqualityComparator /\ test_pc = "evaluated") =>
          (condition_result <=>
              IF return_value_json.comparator = "==" THEN Same(Component, return_value_json.value)
              ELSE ~Same(Component, return_value_json.value))

\* What holds: a test with an ordering comparator and a sequence value is
\* loaded like any other; evaluated against a tuple, a list value raises
\* TypeError and a tuple value is compared in lexicographic order.
SequencesOrdered ==
    (SequenceValue /\ ~EqualityComparator /\ return_value_json.index = NoIndex
        /\ test_pc \in {"evaluated", "raised", "rejected"}) =>
          /\ test_pc # "rejected"
          /\ return_value_json.value.t = "list" => test_pc = "raised"
          /\ return_value_json.value = call_result =>
                /\ test_pc = "evaluated"
                /\ condition_result <=> return_value_json.comparator \in {"<=", ">="}

(* -------------------- claims: lingo serialization ----------------------- *)
\* bytes(lingo) (lingo.py:187-189): the JSON text, encoded.
lingo_to_bytes(self) == to_json(self)

SerializedWithConditions ==
    /\ core_pc \in {"decoded", "reserialized"}
    /\ Len(wire) > Len(kit.core)

\* The conditions payload of the serialized object.
Payload == SubSeq(wire, Len(kit.core) + 2, Len(wire))

\* C34: for every object serialized with conditions, decoding splits the bytes
\* at the one boundary between core bytes and conditions payload and recovers
\* both parts unchanged, for every core free of the delimiter and every
\* payload, a payload that holds the delimiter bytes included.
C34_SplitAtBoundary ==
    SerializedWithConditions =>
        /\ decoded # Raised("ValueError")
        /\ parse(wire) = [raised |-> FALSE, data |-> kit.core, condition_bytes |-> Payload]

\* What holds: the two parts are recovered when the payload is free of the
\* delimiter, and decoding raises ValueError when it is not.
SplitWhenPayloadFree ==
    SerializedWithConditions =>
        IF DELIMITER \in Range(Payload)
        THEN decoded = Raised("ValueError")
        ELSE parse(wire) = [raised |-> FALSE, data |-> kit.core, condition_bytes |-> Payload]

(* -------------------- claims: WorkTracker, continued -------------------- *)
\* The entries of the tick's pending map that are left when the mined
\* transactions are dropped: the marker, which has no receipt, and every
\* transaction without one.
AfterMinedDropped ==
    {k \in DOMAIN tick.before :
        tick.before[k] = UNTRACKED_PENDING_TRANSACTION \/ tick.before[k] \notin tick.receipts}

\* C35: on a tick, after the mined transactions are dropped, the synthetic
\* untracked-pending marker is put into pending exactly when the operator's
\* mempool transaction count exceeds the number of entries the tracker holds;
\* when the counts match or the mempool holds fewer, no marker is put in and
\* the entries are left as they are.
C35_MarkerWhenMempoolExceeds ==
    Ticked =>
        /\ tick.injected <=> tick.mempool > Cardinality(AfterMinedDropped)
        /\ tick.injected =>
              /\ DOMAIN tick.reconciled = AfterMinedDropped \cup {0}
              /\ tick.reconciled[0] = UNTRACKED_PENDING_TRANSACTION
        /\ ~tick.injected => DOMAIN tick.reconciled = AfterMinedDropped
        /\ \A k \in AfterMinedDropped \ {0} : tick.reconciled[k] = tick.before[k]

\* A tick found its one transaction mined and more in the mempool than it
\* tracked: the entry is gone and the marker is in.
C35_Witness ==
    /\ Ticked
    /\ Tracked(tick.before) # {}
    /\ AfterMinedDropped = {}
    /\ tick.mempool > 0
    /\ tick.injected
    /\ DOMAIN pending = {0}

\* A tick whose mempool count matched left the tracker without marker.
C35_WitnessNoMarker ==
    /\ Ticked
    /\ AfterMinedDropped # {}
    /\ tick.mempool = Cardinality(AfterMinedDropped)
    /\ ~tick.injected
    /\ 0 \notin DOMAIN pending

\* C36: once a tick completes successfully after one or more crashes, the
\* consecutive-failure counter is back at 0: the next sleep interval is drawn
\* from [floor, ceil] again and the next crash is retried at once.
C36_CounterResetOnSuccess ==
    (Ticked /\ tick.raised = "no") => consecutive_fails = 0

\* What holds: a successful tick leaves the counter as it found it, so after
\* the first crash every interval it sets is the floor.
CounterKeptOnSuccess ==
    (Ticked /\ tick.raised = "no" /\ consecutive_fails > 0) =>
        task_interval = INTERVAL_FLOOR

\* The counter of failures never goes down.
CounterNeverDecreases == [][consecutive_fails' >= consecutive_fails]_vars


LoopedFunctionRaised == Len(handled') > Len(handled)

\* C38: when the looped function of a RestartableTask raises, handle_errors
\* receives the failure and logs it, and, crash_on_error not being set, the
\* task is restarted and running again without the failure being re-raised.
C38_FailureLoggedAndRestarted ==
    [][LoopedFunctionRaised =>
          /\ task_log' = handled'
          /\ ~reraised'
          /\ running']_vars

\* What holds: the failure arrives as crash_on_error, so nothing is logged and
\* nothing re-raised; the task is started again at once with now=True.
FailureRestartsUnlogged ==
    [][LoopedFunctionRaised =>
          /\ task_log' = <<>>
          /\ ~reraised'
          /\ running' /\ last_now']_vars

(* ------------------------- claims: /revoke ------------------------------ *)
\* C39: after the node answered 200 to a POST /revoke with a revocation order
\* for a policy, every later reencrypt request for the HRAC of that policy is
\* rejected with 401 and produces no cfrag.
C39_RevokedAfterRevoke ==
    (served /\ request.hrac \in revocations) =>
        /\ response.status = UNAUTHORIZED
        /\ response.cfrags = <<>>

\* What holds: POST /revoke leaves the node's revoked policies as they are,
\* and a request is answered as if no order had been received.
RevokeRecordsNothing ==
    /\ served => response = reencrypt(request, datastore_up)
    /\ (Acceptable /\ request.has_conditions /\ request.hrac \in revocations) =>
          response.status = OK

\* The set of revoked policies never changes.
RevokedPoliciesConstant == [][revoked_policies' = revoked_policies]_vars

====
